---- MODULE Spec2Model ----
(***************************************************************************)
(* Retrieval-and-validation core of the support copilot                    *)
(* (backend/app/rag_pipeline.py): the hybrid retriever, the relevance      *)
(* validator, answer generation and the query orchestrator.                *)
(*                                                                         *)
(* A text is a string; strip, split, lower and substring search work on    *)
(* its characters (a sequence of one-character strings, Chars), so they    *)
(* are computed as Python computes them.                                   *)
(* Floats are exact rationals [n, d] in lowest terms with d > 0.           *)
(* Python's 0-based list positions are 1-based here.                       *)
(***************************************************************************)
EXTENDS Integers, Sequences, FiniteSets, TLC

(***************************************************************************)
(* Bounds of the model                                                     *)
(***************************************************************************)
\* largest corpus size (number of valid knowledge entries)
MaxDocs == 3
\* largest top_k a caller passes to retrieve
MaxTopK == 3
\* longest chunk list handed directly to validate_relevance
MaxChunks == 4

(***************************************************************************)
(* Exact rational arithmetic standing in for Python floats                 *)
(***************************************************************************)
Abs(x) == IF x < 0 THEN -x ELSE x

RECURSIVE GCD(_, _)
GCD(a, b) == IF b = 0 THEN a ELSE GCD(b, a % b)

Rat(n, d) ==
    LET g == GCD(Abs(n), d)
    IN  [n |-> n \div g, d |-> d \div g]

Zero == Rat(0, 1)
One == Rat(1, 1)

RAdd(a, b) == Rat(a.n * b.d + b.n * a.d, a.d * b.d)
RSub(a, b) == Rat(a.n * b.d - b.n * a.d, a.d * b.d)
RMul(a, b) == Rat(a.n * b.n, a.d * b.d)
\* division by a positive rational
RDiv(a, b) == Rat(a.n * b.d, a.d * b.n)
RLt(a, b) == a.n * b.d < b.n * a.d
RLe(a, b) == a.n * b.d <= b.n * a.d

(***************************************************************************)
(* Python string operations                                                *)
(***************************************************************************)
IsSpace(c) == c \in {" ", "\n", "\t"}

UpperLetters ==
    <<"A","B","C","D","E","F","G","H","I","J","K","L","M",
      "N","O","P","Q","R","S","T","U","V","W","X","Y","Z">>
LowerLetters ==
    <<"a","b","c","d","e","f","g","h","i","j","k","l","m",
      "n","o","p","q","r","s","t","u","v","w","x","y","z">>
UpperSet == {UpperLetters[i] : i \in DOMAIN UpperLetters}
LowerOf ==
    [c \in UpperSet |->
        LowerLetters[CHOOSE i \in DOMAIN UpperLetters : UpperLetters[i] = c]]

\* str.lower()
lower(s) == [i \in 1..Len(s) |-> IF s[i] \in UpperSet THEN LowerOf[s[i]] ELSE s[i]]

\* str.strip()
strip(s) ==
    LET keep == {i \in 1..Len(s) : ~IsSpace(s[i])}
    IN  IF keep = {} THEN <<>>
        ELSE SubSeq(s, CHOOSE i \in keep : \A j \in keep : i <= j,
                       CHOOSE i \in keep : \A j \in keep : j <= i)

\* str.split() without arguments: maximal runs of non-whitespace, in order
RECURSIVE SplitFrom(_, _, _, _)
SplitFrom(s, i, start, acc) ==
    IF i > Len(s)
    THEN IF start = 0 THEN acc ELSE Append(acc, SubSeq(s, start, Len(s)))
    ELSE IF IsSpace(s[i])
    THEN SplitFrom(s, i + 1, 0,
                   IF start = 0 THEN acc ELSE Append(acc, SubSeq(s, start, i - 1)))
    ELSE SplitFrom(s, i + 1, IF start = 0 THEN i ELSE start, acc)

split(s) == SplitFrom(s, 1, 0, <<>>)

\* needle in hay (substring test)
Contains(hay, needle) ==
    \E i \in 0..(Len(hay) - Len(needle)) :
        SubSeq(hay, i + 1, i + Len(needle)) = needle

\* the pieces of sep.join(parts): the parts with sep between them
RECURSIVE Interleave(_, _)
Interleave(sep, parts) ==
    IF Len(parts) <= 1 THEN parts
    ELSE <<parts[1], sep>> \o Interleave(sep, Tail(parts))

Range(s) == {s[i] : i \in DOMAIN s}

RECURSIVE Str(_)
\* the string made of a sequence of characters
Str(cs) == IF cs = <<>> THEN "" ELSE cs[1] \o Str(Tail(cs))

RECURSIVE Concat(_)
\* "".join(parts) of strings
Concat(parts) == IF parts = <<>> THEN "" ELSE parts[1] \o Concat(Tail(parts))

DigitChars == <<"0","1","2","3","4","5","6","7","8","9">>

RECURSIVE Digits(_)
Digits(k) ==
    IF k < 10 THEN <<DigitChars[k + 1]>>
    ELSE Append(Digits(k \div 10), DigitChars[(k % 10) + 1])

RECURSIVE Pow10(_)
Pow10(p) == IF p = 0 THEN 1 ELSE 10 * Pow10(p - 1)

RECURSIVE PadLeft(_, _)
PadLeft(ds, p) == IF Len(ds) >= p THEN ds ELSE PadLeft(<<"0">> \o ds, p)

\* format(r, ".pf"): p decimals, halves rounded to even
FormatFixed(r, p) ==
    LET num == Abs(r.n) * Pow10(p)
        q == num \div r.d
        rem == num % r.d
        up == (2 * rem > r.d) \/ (2 * rem = r.d /\ q % 2 = 1)
        scaled == IF up THEN q + 1 ELSE q
        int == Digits(scaled \div Pow10(p))
        frac == PadLeft(Digits(scaled % Pow10(p)), p)
    IN  (IF r.n < 0 THEN <<"-">> ELSE <<>>) \o int \o <<".">> \o frac

\* str(float) for a value with at most two decimals: "0.65", "0.3", "1.0"
RECURSIVE DropZeros(_)
DropZeros(s) ==
    IF s[Len(s)] = "0" /\ s[Len(s) - 1] # "."
    THEN DropZeros(SubSeq(s, 1, Len(s) - 1)) ELSE s

FloatStr(r) == DropZeros(FormatFixed(r, 2))

(***************************************************************************)
(* Fixed texts of rag_pipeline.py                                          *)
(***************************************************************************)
MsgBlankQuery == "Please provide a valid question."

MsgRefusal ==
    "I don't have enough information to answer this question. Please try rephrasing or contact support."

MsgRefusalHead == "I don't have enough information to answer this question. ("

MsgRefusalTail == ") Please try rephrasing or contact support."

MsgQueryError ==
    "I encountered an error while processing your question. Please try again or contact support."

ReasonNoChunks == "No chunks retrieved"

ReasonPassed == "All validation checks passed"

ThresholdWords == "below threshold"
VarianceWords == "High score variance"
OverlapWords == "Low keyword overlap"

ReasonThreshold(top_score, threshold) ==
    "Similarity score " \o Str(FormatFixed(top_score, 2)) \o " " \o ThresholdWords
    \o " " \o Str(FloatStr(threshold))

ReasonVariance(variance) ==
    VarianceWords \o " " \o Str(FormatFixed(variance, 3))
    \o " indicates ambiguous query"

ReasonOverlap(overlap) ==
    OverlapWords \o " " \o Str(FormatFixed(overlap, 2))
    \o " - retrieved content may not be relevant"

\* refusal_patterns, as characters
refusal_patterns ==
    << <<"i"," ","d","o","n","'","t"," ","k","n","o","w">>,
       <<"i"," ","c","a","n","n","o","t">>,
       <<"i","'","m"," ","u","n","a","b","l","e">>,
       <<"i"," ","d","o","n","'","t"," ","h","a","v","e">>,
       <<"i","n","s","u","f","f","i","c","i","e","n","t"," ","i","n","f","o","r","m","a","t","i","o","n">>,
       <<"i"," ","d","o","n","'","t"," ","h","a","v","e"," ","e","n","o","u","g","h">>,
       <<"c","a","n","n","o","t"," ","a","n","s","w","e","r">>,
       <<"u","n","a","b","l","e"," ","t","o"," ","a","n","s","w","e","r">> >>

(***************************************************************************)
(* Texts of the model, given by their characters                           *)
(***************************************************************************)
LabelCategory == Str(<<"C","a","t","e","g","o","r","y",":"," ">>)
LabelQuestion == Str(<<"\n","Q","u","e","s","t","i","o","n",":"," ">>)
LabelAnswer == Str(<<"\n","A","n","s","w","e","r",":"," ">>)
LabelTags == Str(<<"\n","T","a","g","s",":"," ">>)
CommaSpace == Str(<<","," ">>)
LabelChars ==
    { <<"C","a","t","e","g","o","r","y",":"," ">>,
      <<"\n","Q","u","e","s","t","i","o","n",":"," ">>,
      <<"\n","A","n","s","w","e","r",":"," ">>,
      <<"\n","T","a","g","s",":"," ">>,
      <<","," ">> }

\* the fields of the knowledge entries
FieldChars ==
    { <<"B","i","l","l","i","n","g">>,
      <<"U","p","d","a","t","e"," ","p","a","y","m","e","n","t","?">>,
      <<"G","o"," ","t","o"," ","S","e","t","t","i","n","g","s">>,
      <<"b","i","l","l","i","n","g">>,
      <<"p","a","y","m","e","n","t">>,
      <<"A","c","c","o","u","n","t">>,
      <<"R","e","s","e","t"," ","p","a","s","s","w","o","r","d">>,
      <<"U","s","e"," ","t","h","e"," ","r","e","s","e","t"," ","l","i","n","k">>,
      <<"p","a","s","s","w","o","r","d">>,
      <<"D","e","l","e","t","e"," ","a","c","c","o","u","n","t">>,
      <<"C","o","n","t","a","c","t"," ","s","u","p","p","o","r","t">>,
      <<"a","c","c","o","u","n","t">>,
      <<"G","e","t"," ","i","n","v","o","i","c","e">>,
      <<"O","p","e","n"," ","B","i","l","l","i","n","g"," ","p","a","g","e">>,
      <<"i","n","v","o","i","c","e">> }

\* the queries
QEmpty == ""
QSpaces == Str(<<" "," ">>)
QReset == Str(<<"R","e","s","e","t"," ","m","y"," ","p","a","s","s","w","o","r","d">>)
QMars == Str(<<"t","o"," ","M","a","r","s">>)
QShort == Str(<<"m","y"," ","i","d">>)
QAccount == Str(<<"A","c","c","o","u","n","t">>)
\* QReset as another client types it
QPadded == Str(<<" ","r","e","s","e","t"," ","m","y"," ","P","a","s","s","w","o","r","d">>)
QueryChars ==
    { <<>>,
      <<" ","r","e","s","e","t"," ","m","y"," ","P","a","s","s","w","o","r","d">>,
      <<" "," ">>,
      <<"R","e","s","e","t"," ","m","y"," ","p","a","s","s","w","o","r","d">>,
      <<"t","o"," ","M","a","r","s">>,
      <<"m","y"," ","i","d">>,
      <<"A","c","c","o","u","n","t">> }

BlankQueries == {QEmpty, QSpaces}
NonBlankQueries == {QReset, QMars, QShort, QAccount}
Queries == BlankQueries \cup NonBlankQueries

\* texts the generation backend may return
GenGood == Str(<<" ","U","s","e"," ","t","h","e"," ","r","e","s","e","t"," ","l","i","n","k","."," ">>)
GenRefusal == Str(<<"I"," ","c","a","n","n","o","t"," ","s","a","y"," ","m","o","r","e">>)
GenShort == Str(<<"O","k">>)
GenChars ==
    { <<" ","U","s","e"," ","t","h","e"," ","r","e","s","e","t"," ","l","i","n","k","."," ">>,
      <<"I"," ","c","a","n","n","o","t"," ","s","a","y"," ","m","o","r","e">>,
      <<"O","k">> }
\* a generated text of blanks only
GenBlank == Str(<<" "," ">>)

GenTexts == {GenGood, GenRefusal, GenShort, GenBlank}

(***************************************************************************)
(* The corpus: entries of data/documentation.json                          *)
(***************************************************************************)
BaseEntries ==
    << [category |-> "Billing", question |-> "Update payment?",
        answer |-> "Go to Settings", tags |-> <<"billing", "payment">>],
       [category |-> "Account", question |-> "Reset password",
        answer |-> "Use the reset link", tags |-> <<"password">>],
       [category |-> "Account", question |-> "Delete account",
        answer |-> "Contact support", tags |-> <<"account">>],
       [category |-> "Billing", question |-> "Get invoice",
        answer |-> "Open Billing page", tags |-> <<"invoice">>] >>

\* entry i of a corpus of n entries; with dup the last entry repeats the id
\* of the first (nothing in the loader makes ids unique)
RawEntry(i, n, dup) ==
    LET b == BaseEntries[((i - 1) % Len(BaseEntries)) + 1]
    IN  [id       |-> IF dup /\ i = n /\ n > 1 THEN "1" ELSE ToString(i),
         category |-> b.category,
         question |-> b.question,
         answer   |-> b.answer,
         tags     |-> b.tags]

\* the pieces of the content string built for one entry
ContentParts(doc) ==
    <<LabelCategory, doc.category, LabelQuestion, doc.question,
      LabelAnswer, doc.answer, LabelTags>> \o Interleave(CommaSpace, doc.tags)

\* the content string built for one entry
Content(doc) == Concat(ContentParts(doc))

\* the metadata dict built for one entry
Metadata(doc) ==
    [id       |-> doc.id,
     category |-> doc.category,
     source   |-> "documentation.json",
     question |-> doc.question,
     answer   |-> doc.answer,
     tags     |-> doc.tags]

(***************************************************************************)
(* Characters of the texts of the model                                    *)
(***************************************************************************)
\* the fixed reasons of validate_relevance
ReasonChars ==
    { <<"N","o"," ","c","h","u","n","k","s"," ","r","e","t","r","i","e","v","e","d">>,
      <<"A","l","l"," ","v","a","l","i","d","a","t","i","o","n"," ","c","h","e","c","k","s"," ","p","a","s","s","e","d">> }

AtomChars == LabelChars \cup FieldChars \cup QueryChars \cup GenChars \cup ReasonChars
AtomTable == [s \in {Str(c) : c \in AtomChars} |-> CHOOSE c \in AtomChars : Str(c) = s]

RECURSIVE ConcatChars(_)
ConcatChars(parts) ==
    IF parts = <<>> THEN <<>> ELSE AtomTable[parts[1]] \o ConcatChars(Tail(parts))

ContentTable ==
    [s \in {Content(BaseEntries[i]) : i \in DOMAIN BaseEntries} |->
        ConcatChars(ContentParts(
            BaseEntries[CHOOSE i \in DOMAIN BaseEntries : Content(BaseEntries[i]) = s]))]

KnownTexts == (DOMAIN AtomTable) \cup (DOMAIN ContentTable)

\* the characters of a text
Chars(s) == IF s \in DOMAIN AtomTable THEN AtomTable[s] ELSE ContentTable[s]

\* text.lower().split(), tabulated once for the texts of the model
TokenTable ==
    [t \in KnownTexts |->
        LET ws == split(lower(Chars(t))) IN [i \in 1..Len(ws) |-> Str(ws[i])]]
Tokenize(text) == TokenTable[text]

(***************************************************************************)
(* State                                                                   *)
(***************************************************************************)
VARIABLES
    data_file,       \* the corpus file: <<>> (missing) or <<raw entries>>
    index_files,     \* the persisted index: which of its files exist, and what they hold
    documents,       \* RAGPipeline.documents: the raw entries kept
    langchain_documents, \* RAGPipeline.langchain_documents: Document per entry
    document_texts,  \* RAGPipeline.document_texts: content string per entry
    metadata,        \* RAGPipeline.metadata: metadata dict per entry
    vectorstore,     \* FAISS store: metadata of the document held by each row
    bm25_index,      \* BM25Okapi corpus: token list per entry
    retriever,       \* <<>> (None) or <<HybridRetriever>>
    settings,        \* app.config.settings
    llm,             \* "api" (use_inference_api), "local" (llm_model), "none"
    pc,              \* "idle": no call in progress; "done": a call returned
    call,            \* the call last made and its arguments
    env,             \* what the external collaborators did during that call
    result,          \* how the call ended and what it returned
    trace,           \* collaborator and stage calls made by that call, in order
    seen,            \* <<>> or <<an earlier call kept for comparison>>
    rag_pipeline,    \* the module global: <<>> (None) or <<i>>, the i-th RAGPipeline made
    instances,       \* how many RAGPipeline objects the process has constructed
    threads,         \* the calls in progress side by side: position and locals of each
    query_cache,     \* app.cache.query_cache: entry per cache key
    query_log        \* the rows of the QueryLog table, in id order

vars ==
    <<data_file, index_files, documents, langchain_documents, document_texts,
      metadata, vectorstore, bm25_index, retriever, settings, llm, pc, call,
      env, result, trace, seen, rag_pipeline, instances, threads, query_cache,
      query_log>>

server == <<rag_pipeline, instances, threads, query_cache, query_log>>

pipeline ==
    <<documents, langchain_documents, document_texts, metadata, vectorstore,
      bm25_index, retriever, settings, llm>>

files == <<data_file, index_files>>

(***************************************************************************)
(* Small helpers                                                           *)
(***************************************************************************)
MinOf(S) == CHOOSE x \in S : \A y \in S : x <= y
MinNat(a, b) == IF a <= b THEN a ELSE b

\* dict.get(k, default) on a dict held as a function
DictGet(d, k, default) == IF k \in DOMAIN d THEN d[k] ELSE default

\* a slice that cuts nothing
SliceTo_All(s, k) == s

\* s[:k] of Python, k of either sign
SliceTo(s, k) ==
    IF k >= 0 THEN SubSeq(s, 1, MinNat(k, Len(s)))
    ELSE SubSeq(s, 1, IF Len(s) + k > 0 THEN Len(s) + k ELSE 0)

RECURSIVE RMaxOf(_, _)
\* max of the first i elements of a non-empty sequence of rationals
RMaxOf(s, i) ==
    IF i = 1 THEN s[1]
    ELSE LET m == RMaxOf(s, i - 1) IN IF RLt(m, s[i]) THEN s[i] ELSE m

RECURSIVE RSum(_, _)
RSum(s, i) == IF i = 0 THEN Zero ELSE RAdd(RSum(s, i - 1), s[i])

(***************************************************************************)
(* HybridRetriever                                                         *)
(***************************************************************************)
\* _get_doc_index: position of the first metadata entry with the document's id
get_doc_index(doc) ==
    LET doc_id == doc.id
        found == {idx \in 1..Len(metadata) : metadata[idx].id = doc_id}
    IN  IF doc_id # "" /\ found # {} THEN <<MinOf(found)>> ELSE <<>>

\* distance to similarity
Similarity(score) == RDiv(One, RAdd(One, score))

RECURSIVE VectorScoresDict(_, _)
\* vector_scores_dict after the first i vector hits
VectorScoresDict(vector_docs, i) ==
    IF i = 0 THEN [x \in {} |-> Zero]
    ELSE LET prev == VectorScoresDict(vector_docs, i - 1)
             similarity == Similarity(vector_docs[i].score)
             doc_idx == get_doc_index(vector_docs[i].doc)
         IN  IF doc_idx # <<>>
             THEN [x \in (DOMAIN prev) \cup {doc_idx[1]} |->
                      IF x = doc_idx[1] THEN similarity ELSE prev[x]]
             ELSE prev

\* a normalisation by the score of the first document instead of the maximum
NormalizeBm25_ByFirst(bm25_scores) ==
    LET bm25_max == IF RLt(Zero, bm25_scores[1]) THEN bm25_scores[1] ELSE One
    IN  [i \in 1..Len(bm25_scores) |-> RDiv(bm25_scores[i], bm25_max)]

\* bm25_scores_normalized
NormalizeBm25(bm25_scores) ==
    LET mx == RMaxOf(bm25_scores, Len(bm25_scores))
        bm25_max == IF RLt(Zero, mx) THEN mx ELSE One
    IN  [i \in 1..Len(bm25_scores) |->
            IF RLt(Zero, bm25_max) THEN RDiv(bm25_scores[i], bm25_max)
            ELSE bm25_scores[i]]

\* combined_score of one document
CombinedScore(vector_score, bm25_score) ==
    RAdd(RMul(retriever[1].vector_weight, vector_score),
         RMul(retriever[1].bm25_weight, bm25_score))

\* an insertion that puts the new item before the items of equal score
InsertDesc_Unstable(sorted, idx, combined_scores) ==
    LET p == Cardinality({j \in 1..Len(sorted) :
                RLt(combined_scores[idx], combined_scores[sorted[j]])})
    IN  SubSeq(sorted, 1, p) \o <<idx>> \o SubSeq(sorted, p + 1, Len(sorted))

\* where sorted(..., reverse=True) puts one more item: after every item whose
\* score is not lower (the sort is stable)
InsertDesc(sorted, idx, combined_scores) ==
    LET p == Cardinality({j \in 1..Len(sorted) :
                ~RLt(combined_scores[sorted[j]], combined_scores[idx])})
    IN  SubSeq(sorted, 1, p) \o <<idx>> \o SubSeq(sorted, p + 1, Len(sorted))

RECURSIVE SortedIndices(_, _)
\* sorted(combined_scores.items(), key=score, reverse=True) over the first i items
SortedIndices(combined_scores, i) ==
    IF i = 0 THEN <<>>
    ELSE InsertDesc(SortedIndices(combined_scores, i - 1), i, combined_scores)

\* the cut to the retriever's k
TopIndices(sorted_indices) == SliceTo(sorted_indices, retriever[1].k)

\* the Document built for corpus position idx
BuildDocument(idx, combined_scores, vector_scores_dict, bm25_scores_normalized) ==
    [page_content |-> document_texts[idx],
     metadata |->
       [id |-> metadata[idx].id,
        category |-> metadata[idx].category,
        source |-> metadata[idx].source,
        question |-> metadata[idx].question,
        answer |-> metadata[idx].answer,
        tags |-> metadata[idx].tags,
        score |-> combined_scores[idx],
        vector_score |-> DictGet(vector_scores_dict, idx, Zero),
        bm25_score |-> bm25_scores_normalized[idx]]]

\* results: one Document per top index, in that order
BuildDocuments(top_indices, combined_scores, vector_scores_dict, bm25_scores_normalized) ==
    [j \in 1..Len(top_indices) |->
        BuildDocument(top_indices[j], combined_scores, vector_scores_dict,
                      bm25_scores_normalized)]

\* combined_scores: the fused score of every corpus position
CombinedScores(vector_scores_dict, bm25_scores_normalized) ==
    [idx \in 1..Len(document_texts) |->
        CombinedScore(DictGet(vector_scores_dict, idx, Zero),
                      bm25_scores_normalized[idx])]

\* the fusion, the ranking and the Documents, from the two score tables
RankedDocuments(combined_scores, vector_scores_dict, bm25_scores_normalized) ==
    BuildDocuments(TopIndices(SortedIndices(combined_scores, Len(document_texts))),
                   combined_scores, vector_scores_dict, bm25_scores_normalized)

\* the same from the two score tables
FusedDocuments(vector_scores_dict, bm25_scores_normalized) ==
    RankedDocuments(CombinedScores(vector_scores_dict, bm25_scores_normalized),
                    vector_scores_dict, bm25_scores_normalized)

\* HybridRetriever._get_relevant_documents
get_relevant_documents(query, e) ==
    IF e.fault = "embed"
    THEN [exc |-> TRUE, docs |-> <<>>,
          trace |-> <<"similarity_search_with_score">>]
    ELSE IF Tokenize(query) = <<>>
    THEN [exc |-> FALSE, docs |-> <<>>,
          trace |-> <<"similarity_search_with_score">>]
    ELSE IF e.fault = "bm25"
    THEN [exc |-> TRUE, docs |-> <<>>,
          trace |-> <<"similarity_search_with_score", "get_scores">>]
    ELSE [exc |-> FALSE,
          docs |-> FusedDocuments(VectorScoresDict(e.hits, Len(e.hits)),
                                  NormalizeBm25(e.bm25_scores)),
          trace |-> <<"similarity_search_with_score", "get_scores">>]

(***************************************************************************)
(* RAGPipeline: retrieve, validate_relevance, generate_answer, query       *)
(***************************************************************************)
\* a blank test that forgets the strip
IsBlank_NoStrip(query) == query = ""

\* not query or not query.strip()
IsBlank(query) == query = "" \/ strip(Chars(query)) = <<>>

\* the chunk dict retrieve builds from one retrieved Document
FormatResult(doc) ==
    [content |-> doc.page_content,
     score |-> doc.metadata.score,
     metadata |-> [id |-> doc.metadata.id,
                   category |-> doc.metadata.category,
                   question |-> doc.metadata.question,
                   answer |-> doc.metadata.answer,
                   tags |-> doc.metadata.tags]]

\* results: the first top_k documents, formatted
FormatResults(docs, top_k) ==
    [i \in 1..Len(SliceTo(docs, top_k)) |-> FormatResult(SliceTo(docs, top_k)[i])]

\* a try block without the except clause: a retrieval failure propagates
TryRetrieve_Uncaught(r, top_k) ==
    [exc |-> r.exc, value |-> FormatResults(r.docs, top_k), trace |-> r.trace]

\* the try block of retrieve around the retriever's answer r
TryRetrieve(r, top_k) ==
    IF r.exc
    THEN [exc |-> FALSE, value |-> <<>>, trace |-> r.trace]
    ELSE [exc |-> FALSE, value |-> FormatResults(r.docs, top_k), trace |-> r.trace]

\* RAGPipeline.retrieve; top_k is <<>> (None) or <<k>>
retrieve(query, top_k, e) ==
    IF IsBlank(query)
    THEN [exc |-> FALSE, value |-> <<>>, trace |-> <<>>]
    ELSE IF retriever = <<>>
    THEN [exc |-> TRUE, value |-> <<>>, trace |-> <<>>]
    ELSE TryRetrieve(get_relevant_documents(query, e),
                     IF top_k = <<>> THEN settings.max_context_chunks
                     ELSE top_k[1])

\* the sum of squared deviations, not divided by the number of scores
Variance_Unscaled(scores) ==
    LET cnt == Rat(Len(scores), 1)
        mean == RDiv(RSum(scores, Len(scores)), cnt)
        sq == [i \in 1..Len(scores) |->
                  RMul(RSub(scores[i], mean), RSub(scores[i], mean))]
    IN  RSum(sq, Len(sq))

\* np.var of a non-empty list: the population variance
Variance(scores) ==
    LET cnt == Rat(Len(scores), 1)
        mean == RDiv(RSum(scores, Len(scores)), cnt)
        sq == [i \in 1..Len(scores) |->
                  RMul(RSub(scores[i], mean), RSub(scores[i], mean))]
    IN  RDiv(RSum(sq, Len(sq)), cnt)

\* set(word.lower() for word in text.split() if len(word) > 2)
ContentWordSet(text) ==
    {Str(lower(w)) : w \in {x \in Range(split(Chars(text))) : Len(x) > 2}}

\* the same, tabulated once for the texts of the model
ContentWordTable == [t \in KnownTexts |-> ContentWordSet(t)]
ContentWords(text) == ContentWordTable[text]

\* a threshold stage comparing against 0.5 instead of the configured threshold
BelowThreshold_Fixed(top_score) == RLt(top_score, Rat(5, 10))

\* the similarity-threshold stage: does the top score block
BelowThreshold(top_score) == RLt(top_score, settings.similarity_threshold)

\* an empty-list verdict that gives the reason of a passed validation
NoChunksVerdict_Passed ==
    [is_valid |-> FALSE, confidence |-> Zero, reason |-> ReasonPassed]

\* the verdict on an empty chunk list
NoChunksVerdict ==
    [is_valid |-> FALSE, confidence |-> Zero, reason |-> ReasonNoChunks]

\* a consistency stage that takes the scores of all the chunks
ConsistencyScores_All(chunks) == [i \in 1..Len(chunks) |-> chunks[i].score]

\* scores = [chunk['score'] for chunk in chunks[:3]], for three chunks or more
ConsistencyScores(chunks) == [i \in 1..3 |-> chunks[i].score]

\* a coverage stage that also blocks an overlap equal to the threshold
BelowOverlap_OrEqual(overlap) == RLe(overlap, settings.keyword_overlap_threshold)

\* overlap < settings.keyword_overlap_threshold
BelowOverlap(overlap) == RLt(overlap, settings.keyword_overlap_threshold)

\* a validation that runs the coverage stage before the consistency stage
validate_relevance_CoverageFirst(chunks, query) ==
    IF chunks = <<>>
    THEN NoChunksVerdict
    ELSE
    LET top_score == chunks[1].score
        query_words == ContentWords(query)
        top_chunk_words == ContentWords(chunks[1].content)
        overlap == Rat(Cardinality(query_words \cap top_chunk_words),
                       Cardinality(query_words))
    IN  IF BelowThreshold(top_score)
        THEN [is_valid |-> FALSE, confidence |-> top_score,
              reason |-> ReasonThreshold(top_score, settings.similarity_threshold)]
        ELSE IF query_words # {} /\ BelowOverlap(overlap)
        THEN [is_valid |-> FALSE, confidence |-> top_score,
              reason |-> ReasonOverlap(overlap)]
        ELSE IF Len(chunks) >= 3
                /\ RLt(settings.variance_threshold, Variance(ConsistencyScores(chunks)))
        THEN [is_valid |-> FALSE, confidence |-> top_score,
              reason |-> ReasonVariance(Variance(ConsistencyScores(chunks)))]
        ELSE [is_valid |-> TRUE, confidence |-> top_score, reason |-> ReasonPassed]

\* RAGPipeline.validate_relevance
validate_relevance(chunks, query) ==
    IF chunks = <<>>
    THEN NoChunksVerdict
    ELSE
    LET top_score == chunks[1].score
        query_words == ContentWords(query)
        top_chunk_words == ContentWords(chunks[1].content)
        overlap == Rat(Cardinality(query_words \cap top_chunk_words),
                       Cardinality(query_words))
    IN  IF BelowThreshold(top_score)
        THEN [is_valid |-> FALSE, confidence |-> top_score,
              reason |-> ReasonThreshold(top_score, settings.similarity_threshold)]
        ELSE IF Len(chunks) >= 3
                /\ RLt(settings.variance_threshold, Variance(ConsistencyScores(chunks)))
        THEN [is_valid |-> FALSE, confidence |-> top_score,
              reason |-> ReasonVariance(Variance(ConsistencyScores(chunks)))]
        ELSE IF query_words # {} /\ BelowOverlap(overlap)
        THEN [is_valid |-> FALSE, confidence |-> top_score,
              reason |-> ReasonOverlap(overlap)]
        ELSE [is_valid |-> TRUE, confidence |-> top_score, reason |-> ReasonPassed]

\* a post-processing without the length test
PostProcess_NoLength(raw_answer, chunks) ==
    LET answer == strip(Chars(raw_answer))
        refused == \E i \in DOMAIN refusal_patterns :
                       Contains(lower(answer), refusal_patterns[i])
    IN  IF refused THEN chunks[1].metadata.answer ELSE Str(answer)

\* the post-processing of a generated answer
PostProcess(raw_answer, chunks) ==
    LET answer == strip(Chars(raw_answer))
        refused == \E i \in DOMAIN refusal_patterns :
                       Contains(lower(answer), refusal_patterns[i])
        a2 == IF refused THEN chunks[1].metadata.answer ELSE Str(answer)
    IN  IF a2 = "" \/ Len(a2) < 10 THEN chunks[1].metadata.answer ELSE a2

\* a generate_answer without the except clause: a backend failure propagates
generate_answer_Uncaught(query, chunks, e) ==
    IF chunks = <<>>
    THEN [exc |-> FALSE, answer |-> MsgRefusal, trace |-> <<"generate_answer">>]
    ELSE IF llm = "none"
    THEN [exc |-> FALSE,
          answer |-> PostProcess(chunks[1].metadata.answer, chunks),
          trace |-> <<"generate_answer">>]
    ELSE
    LET backend == IF llm = "api" THEN "text_generation" ELSE "llm_model.generate"
    IN  IF e.gen.outcome = "raise"
        THEN [exc |-> TRUE, answer |-> "",
              trace |-> <<"generate_answer", backend>>]
        ELSE [exc |-> FALSE, answer |-> PostProcess(e.gen.text, chunks),
              trace |-> <<"generate_answer", backend>>]

\* RAGPipeline.generate_answer; e.gen tells whether the backend raises or
\* which text it returns
generate_answer(query, chunks, e) ==
    IF chunks = <<>>
    THEN [exc |-> FALSE, answer |-> MsgRefusal, trace |-> <<"generate_answer">>]
    ELSE IF llm = "none"
    THEN [exc |-> FALSE,
          answer |-> PostProcess(chunks[1].metadata.answer, chunks),
          trace |-> <<"generate_answer">>]
    ELSE
    LET backend == IF llm = "api" THEN "text_generation" ELSE "llm_model.generate"
    IN  IF e.gen.outcome = "raise"
        THEN [exc |-> FALSE, answer |-> chunks[1].metadata.answer,
              trace |-> <<"generate_answer", backend>>]
        ELSE [exc |-> FALSE, answer |-> PostProcess(e.gen.text, chunks),
              trace |-> <<"generate_answer", backend>>]

\* a blank-query result that leaves the elapsed time out
BlankResult_NoElapsed(e) ==
    [answer |-> MsgBlankQuery, chunks |-> <<>>, confidence |-> Zero,
     blocked |-> TRUE]

\* the result returned for a blank query
BlankResult(e) ==
    [answer |-> MsgBlankQuery, chunks |-> <<>>, confidence |-> Zero,
     blocked |-> TRUE, response_time_ms |-> e.elapsed]

\* the result built by the except clause of query
ErrorResult(e) ==
    [answer |-> MsgQueryError, chunks |-> <<>>, confidence |-> Zero,
     blocked |-> TRUE, response_time_ms |-> e.elapsed]

\* a refusal that never shows the reason, whatever settings.debug says
RefusalAnswer_NoDebug(validation_reason) == MsgRefusal

\* the answer of a rejected query
RefusalAnswer(validation_reason) ==
    IF settings.debug
    THEN MsgRefusalHead \o validation_reason \o MsgRefusalTail
    ELSE MsgRefusal

NoValidation == [is_valid |-> FALSE, confidence |-> Zero, reason |-> ""]

\* the verdict on the chunks r.value retrieve returned, as the stage reached
Validated(r, v) ==
    [stage |-> IF v.is_valid THEN "accepted" ELSE "rejected",
     chunks |-> r.value,
     v |-> v,
     trace |-> <<"retrieve">> \o r.trace \o <<"validate_relevance">>]

\* Step 2 on the outcome r of Step 1
ValidateRetrieved(user_query, r) ==
    IF r.exc
    THEN [stage |-> "failed", chunks |-> <<>>, v |-> NoValidation,
          trace |-> <<"retrieve">> \o r.trace]
    ELSE Validated(r, validate_relevance(r.value, user_query))

\* RAGPipeline.query up to the validation verdict: the blank check, Step 1
\* (retrieve with the default top_k) and Step 2 (validate_relevance)
query_validated(user_query, e) ==
    IF IsBlank(user_query)
    THEN [stage |-> "blank", chunks |-> <<>>, v |-> NoValidation, trace |-> <<>>]
    ELSE ValidateRetrieved(user_query, retrieve(user_query, <<>>, e))

\* the chunks as the result record carries them
FormatChunks(chunks) ==
    [i \in 1..Len(chunks) |->
        [content |-> chunks[i].content,
         score |-> chunks[i].score,
         metadata |-> [id |-> chunks[i].metadata.id,
                       category |-> chunks[i].metadata.category]]]

\* the result of an accepted query whose generation gave g
Answered(f, g, e) ==
    IF g.exc
    THEN [exc |-> FALSE, value |-> ErrorResult(e), trace |-> f.trace \o g.trace]
    ELSE [exc |-> FALSE,
          value |-> [answer |-> g.answer,
                     chunks |-> FormatChunks(f.chunks),
                     confidence |-> f.v.confidence,
                     blocked |-> FALSE,
                     response_time_ms |-> e.elapsed],
          trace |-> f.trace \o g.trace]

\* the result of a rejected query
Refused(f, e) ==
    [exc |-> FALSE,
     value |-> [answer |-> RefusalAnswer(f.v.reason),
                chunks |-> FormatChunks(f.chunks),
                confidence |-> f.v.confidence,
                blocked |-> TRUE,
                response_time_ms |-> e.elapsed],
     trace |-> f.trace]

\* RAGPipeline.query from the validation verdict on: Step 3 (generate_answer
\* or the refusal), the formatting of the chunks and the result record
query_answered(user_query, f, e) ==
    IF f.stage = "blank"
    THEN [exc |-> FALSE, value |-> BlankResult(e), trace |-> f.trace]
    ELSE IF f.stage = "failed"
    THEN [exc |-> FALSE, value |-> ErrorResult(e), trace |-> f.trace]
    ELSE IF f.v.is_valid
    THEN Answered(f, generate_answer(user_query, f.chunks, e), e)
    ELSE Refused(f, e)

\* RAGPipeline.query
query(user_query, e) ==
    query_answered(user_query, query_validated(user_query, e), e)

(***************************************************************************)
(* External collaborators: what FAISS, BM25Okapi, the generation backend   *)
(* and the clock may do during one call                                    *)
(***************************************************************************)
\* L2 distances the vector store may report
Distances == {0, 3}
\* raw BM25 scores get_scores may report for a document sharing a query token
\* (BM25Okapi replaces a negative idf by epsilon * average_idf, which is
\* negative when the average idf is, so a raw score may be negative)
RawScores == {Rat(-1, 1), Zero, One, Rat(2, 1)}

RECURSIVE OrderHits(_, _)
\* the rows of H nearest first, rows at equal distance by position; a hit is
\* the Document stored for the row (row: the position of its vector in the
\* store) with the distance of that vector
OrderHits(H, dist) ==
    IF H = {} THEN <<>>
    ELSE LET r == CHOOSE a \in H :
                    \A b \in H : dist[a] < dist[b] \/ (dist[a] = dist[b] /\ a <= b)
         IN  <<[doc |-> vectorstore[r], score |-> Rat(dist[r], 1), row |-> r]>>
             \o OrderHits(H \ {r}, dist)

\* results similarity_search_with_score(query, k=kk) may return when row r lies
\* at distance dist[r] from the query: the kk nearest rows (all rows when the
\* store holds fewer), nearest first
VectorSearchResultsFor(dist, kk) ==
    LET rows == 1..Len(vectorstore)
        m == MinNat(kk, Len(vectorstore))
    IN  { OrderHits(H, dist) :
            H \in {S \in SUBSET rows :
                     /\ Cardinality(S) = m
                     /\ \A a \in S, b \in rows \ S : dist[a] <= dist[b]} }

\* the same, whatever the distances of the rows are
VectorSearchResults(kk) ==
    UNION { VectorSearchResultsFor(dist, kk) :
            dist \in [1..Len(vectorstore) -> Distances] }

\* score arrays get_scores(tokenized_query) may return: a document sharing no
\* token with the query scores 0
Bm25Results(tokenized_query) ==
    {f \in [1..Len(bm25_index) -> RawScores] :
        \A i \in 1..Len(bm25_index) :
            Range(bm25_index[i]) \cap Range(tokenized_query) = {} => f[i] = Zero}

\* elapsed milliseconds the clock may report for one call
ElapsedMs == {0, 40}

NoGen == [outcome |-> "unused", text |-> ""]
GenOutcomes ==
    {[outcome |-> "raise", text |-> ""]}
    \cup {[outcome |-> "text", text |-> t] : t \in GenTexts}

\* what retrieval's collaborators may do for one query
RetrievalEnvs(q) ==
    IF IsBlank(q) \/ retriever = <<>>
    THEN {[fault |-> "none", hits |-> <<>>, bm25_scores |-> <<>>]}
    ELSE LET VS == VectorSearchResults(retriever[1].k * 2)
         IN  {[fault |-> "embed", hits |-> <<>>, bm25_scores |-> <<>>]}
             \cup {[fault |-> "bm25", hits |-> h, bm25_scores |-> <<>>] : h \in VS}
             \cup {[fault |-> "none", hits |-> h, bm25_scores |-> b] :
                      h \in VS, b \in Bm25Results(Tokenize(q))}

MkEnv(re, g, el) ==
    [fault |-> re.fault, hits |-> re.hits, bm25_scores |-> re.bm25_scores,
     gen |-> g, elapsed |-> el]

(***************************************************************************)
(* RAGPipeline: construction (_load_documents, _build_indices)             *)
(***************************************************************************)
RequiredFields == {"id", "category", "question", "answer", "tags"}

\* all(field in doc for field in required_fields)
HasRequiredFields(doc) == RequiredFields \subseteq DOMAIN doc

NoLists ==
    [documents |-> <<>>, document_texts |-> <<>>, metadata |-> <<>>,
     langchain_documents |-> <<>>]

\* an entry put in front of the lists instead of behind them
AppendEntry_Front(lists, doc) ==
    [documents |-> <<doc>> \o lists.documents,
     document_texts |-> <<Content(doc)>> \o lists.document_texts,
     metadata |-> <<Metadata(doc)>> \o lists.metadata,
     langchain_documents |->
        <<[page_content |-> Content(doc), metadata |-> Metadata(doc)]>>
        \o lists.langchain_documents]

\* the four appends made for one valid entry
AppendEntry(lists, doc) ==
    [documents |-> Append(lists.documents, doc),
     document_texts |-> Append(lists.document_texts, Content(doc)),
     metadata |-> Append(lists.metadata, Metadata(doc)),
     langchain_documents |->
        Append(lists.langchain_documents,
               [page_content |-> Content(doc), metadata |-> Metadata(doc)])]

RECURSIVE LoadedLists(_, _)
\* the four lists once the loop has handled the first i raw entries
LoadedLists(docs, i) ==
    IF i = 0 THEN NoLists
    ELSE IF HasRequiredFields(docs[i])
    THEN AppendEntry(LoadedLists(docs, i - 1), docs[i])
    ELSE LoadedLists(docs, i - 1)

\* _load_documents on the corpus file
load_documents(file) ==
    IF file = <<>>
    THEN [exc |-> <<"FileNotFoundError">>, lists |-> NoLists]
    ELSE [exc |-> <<>>, lists |-> LoadedLists(file[1], Len(file[1]))]

\* the rows FAISS.from_documents builds: one vector per document, in order
IndexRows(langchain_docs) ==
    [i \in 1..Len(langchain_docs) |-> [id |-> langchain_docs[i].metadata.id]]

\* a guard that never finds the document list empty
NoDocuments_Never(langchain_docs) == FALSE

\* not self.langchain_documents
NoDocuments(langchain_docs) == langchain_docs = <<>>

\* the test made before loading: the file named by settings.vector_index_path
\* and the file index.faiss next to it both exist
IndexOnDisk(disk) == disk.bin /\ disk.faiss # <<>>

\* a count test that accepts every loaded index
IndexMatches_Any(ntotal, langchain_docs) == TRUE

\* self.vectorstore.index.ntotal == len(self.langchain_documents)
IndexMatches(ntotal, langchain_docs) == ntotal = Len(langchain_docs)

\* what FAISS.from_documents (one outcome per call) and save_local may do
BuildOutcomes == {"ok", "raise"}
SaveOutcomes == {"ok", "fail"}
StartupEnvs == [builds : BuildOutcomes \X BuildOutcomes, save : SaveOutcomes]

\* save_local(parent, index_name="index") writes index.faiss (and index.pkl)
\* next to the file named by settings.vector_index_path, never that file
Saved(disk, rows) == [disk EXCEPT !.faiss = <<[rows |-> rows, loadable |-> TRUE]>>]

\* _rebuild_indices, given how from_documents and save_local end
rebuild_indices(langchain_docs, disk, build, save) ==
    IF build = "raise"
    THEN [exc |-> <<"from_documents">>, vectorstore |-> <<>>, disk |-> disk,
          trace |-> <<"from_documents">>]
    ELSE [exc |-> <<>>, vectorstore |-> IndexRows(langchain_docs),
          disk |-> IF save = "ok" THEN Saved(disk, IndexRows(langchain_docs))
                   ELSE disk,
          trace |-> <<"from_documents", "save_local">>]

\* the calls made before r, followed by r
After(calls, r) == [r EXCEPT !.trace = calls \o r.trace]

\* the except clause around the load: a rebuild that raised inside the try
\* block is followed by one more rebuild
RebuildCaught(r, langchain_docs, disk, e) ==
    IF r.exc = <<>> THEN r
    ELSE After(r.trace, rebuild_indices(langchain_docs, disk, e.builds[2], e.save))

\* the vector-store part of _build_indices
build_vectorstore(langchain_docs, disk, e) ==
    IF IndexOnDisk(disk)
    THEN IF ~disk.faiss[1].loadable
         THEN After(<<"load_local">>,
                    rebuild_indices(langchain_docs, disk, e.builds[1], e.save))
         ELSE IF IndexMatches(Len(disk.faiss[1].rows), langchain_docs)
         THEN [exc |-> <<>>, vectorstore |-> disk.faiss[1].rows, disk |-> disk,
               trace |-> <<"load_local">>]
         ELSE After(<<"load_local">>,
                    RebuildCaught(rebuild_indices(langchain_docs, disk,
                                                  e.builds[1], e.save),
                                  langchain_docs, disk, e))
    ELSE rebuild_indices(langchain_docs, disk, e.builds[1], e.save)

\* _build_indices
build_indices(langchain_docs, disk, e) ==
    IF NoDocuments(langchain_docs)
    THEN [exc |-> <<"ValueError">>, vectorstore |-> <<>>, disk |-> disk,
          trace |-> <<>>]
    ELSE build_vectorstore(langchain_docs, disk, e)

\* RAGPipeline(): _load_documents, then _build_indices on what it loaded
construct_from(l, disk, e) ==
    IF l.exc # <<>>
    THEN [exc |-> l.exc, lists |-> NoLists, vectorstore |-> <<>>, disk |-> disk,
          trace |-> <<"load_documents">>]
    ELSE [lists |-> l.lists] @@
         After(<<"load_documents", "build_indices">>,
               build_indices(l.lists.langchain_documents, disk, e))

construct(file, disk, e) == construct_from(load_documents(file), disk, e)

(***************************************************************************)
(* Initial states: a pipeline whose construction completed                 *)
(***************************************************************************)
\* (vector_weight, bm25_weight) pairs the settings validators accept
WeightPairs ==
    { <<Rat(7, 10), Rat(3, 10)>>, <<One, One>>, <<Rat(3, 10), Rat(1, 10)>> }
\* max_context_chunks values (validator: 1..20)
ChunkLimits == {1, 5}
LlmModes == {"api", "local", "none"}

DefaultSimilarityThreshold == Rat(65, 100)
DefaultVarianceThreshold == Rat(1, 10)
DefaultKeywordOverlapThreshold == Rat(2, 10)

NoCall == [op |-> "none", query |-> "", top_k |-> <<>>, chunks |-> <<>>]
NoEnv == MkEnv([fault |-> "none", hits |-> <<>>, bm25_scores |-> <<>>], NoGen, 0)
NoResult == [status |-> "none", value |-> <<>>]

\* the pipeline built over the first n entries under the given settings
Built(n, dup, s, mode) ==
    /\ data_file = <<[i \in 1..n |-> RawEntry(i, n, dup)]>>
    /\ index_files = [bin |-> FALSE,
                      faiss |-> <<[rows |-> [i \in 1..n |-> [id |-> RawEntry(i, n, dup).id]],
                                   loadable |-> TRUE]>>]
    /\ documents = [i \in 1..n |-> RawEntry(i, n, dup)]
    /\ langchain_documents =
         [i \in 1..n |-> [page_content |-> Content(RawEntry(i, n, dup)),
                          metadata |-> Metadata(RawEntry(i, n, dup))]]
    /\ document_texts = [i \in 1..n |-> Content(RawEntry(i, n, dup))]
    /\ metadata = [i \in 1..n |-> Metadata(RawEntry(i, n, dup))]
    /\ vectorstore = [i \in 1..n |-> [id |-> RawEntry(i, n, dup).id]]
    /\ bm25_index = [i \in 1..n |-> Tokenize(Content(RawEntry(i, n, dup)))]
    /\ retriever = <<[vector_weight |-> s.vector_weight,
                      bm25_weight |-> s.bm25_weight,
                      k |-> s.max_context_chunks]>>
    /\ settings = s
    /\ llm = mode
    /\ pc = "idle"
    /\ call = NoCall
    /\ env = NoEnv
    /\ result = NoResult
    /\ trace = <<>>
    /\ seen = <<>>
    /\ rag_pipeline = <<1>>
    /\ instances = 1
    /\ query_cache = <<>>
    /\ query_log = <<>>

MkSettings(w, k, dbg, sim) ==
    [similarity_threshold |-> sim,
     variance_threshold |-> DefaultVarianceThreshold,
     keyword_overlap_threshold |-> DefaultKeywordOverlapThreshold,
     vector_weight |-> w[1],
     bm25_weight |-> w[2],
     max_context_chunks |-> k,
     debug |-> dbg]

Init ==
    \E n \in 1..MaxDocs, dup \in BOOLEAN, w \in WeightPairs, k \in ChunkLimits,
       dbg \in BOOLEAN, mode \in LlmModes :
        /\ dup => n > 1
        /\ Built(n, dup, MkSettings(w, k, dbg, DefaultSimilarityThreshold), mode)
        /\ threads = <<>>

(***************************************************************************)
(* Actions: one per exposed operation, the whole call in one step          *)
(***************************************************************************)
BackendCalls == {"text_generation", "llm_model.generate"}

\* a call that leaves the retriever cut down to one result
Deliver_NarrowsRetriever(c, e, r) ==
    /\ call' = c
    /\ env' = e
    /\ result' = [status |-> IF r.exc THEN "raised" ELSE "returned",
                  value |-> r.value]
    /\ trace' = r.trace
    /\ pc' = "done"
    /\ retriever' = IF retriever = <<>> THEN retriever
                    ELSE <<[retriever[1] EXCEPT !.k = 1]>>
    /\ UNCHANGED <<documents, langchain_documents, document_texts, metadata,
                   vectorstore, bm25_index, settings, llm, files, server>>

\* the call c made under e ends with outcome r
Deliver(c, e, r) ==
    /\ call' = c
    /\ env' = e
    /\ result' = [status |-> IF r.exc THEN "raised" ELSE "returned",
                  value |-> r.value]
    /\ trace' = r.trace
    /\ pc' = "done"
    /\ UNCHANGED <<pipeline, files, server>>

\* query(user_query) once retrieval and validation have given f
QueryFrom(q, re, f) ==
    \E el \in ElapsedMs,
       g \in (IF f.stage = "accepted" /\ llm # "none"
              THEN GenOutcomes ELSE {NoGen}) :
        Deliver([op |-> "query", query |-> q, top_k |-> <<>>, chunks |-> <<>>],
                MkEnv(re, g, el),
                query_answered(q, f, MkEnv(re, g, el)))

\* query(user_query)
Query(q) ==
    /\ pc = "idle"
    /\ \E re \in RetrievalEnvs(q) : QueryFrom(q, re, query_validated(q, re))
    /\ UNCHANGED seen

\* retrieve(query, top_k)
Retrieve(q, top_k) ==
    /\ pc = "idle"
    /\ \E re \in RetrievalEnvs(q) :
         Deliver([op |-> "retrieve", query |-> q, top_k |-> top_k,
                  chunks |-> <<>>],
                 MkEnv(re, NoGen, 0),
                 retrieve(q, top_k, MkEnv(re, NoGen, 0)))
    /\ UNCHANGED seen

\* validate_relevance(chunks, query)
Validate(chunks, q) ==
    /\ pc = "idle"
    /\ call' = [op |-> "validate_relevance", query |-> q, top_k |-> <<>>,
                chunks |-> chunks]
    /\ env' = NoEnv
    /\ result' = [status |-> "returned", value |-> validate_relevance(chunks, q)]
    /\ trace' = <<>>
    /\ pc' = "done"
    /\ UNCHANGED <<pipeline, files, seen, server>>

\* the caller takes the result; the pipeline is ready for the next call
Return ==
    /\ pc = "done"
    /\ pc' = "idle"
    /\ call' = NoCall
    /\ env' = NoEnv
    /\ result' = NoResult
    /\ trace' = <<>>
    /\ UNCHANGED <<pipeline, files, seen, server>>

Next ==
    \/ pc = "idle" /\ \E q \in Queries : Query(q)
    \/ Return

Spec == Init /\ [][Next]_vars

\* retrieve called on its own with any top_k, next to query, on pipelines whose
\* entries may repeat an id
TopKs == {<<>>} \cup {<<k>> : k \in 0..MaxTopK}

InitRetrieve ==
    \E n \in 1..MaxDocs, dup \in BOOLEAN, w \in WeightPairs, k \in ChunkLimits :
        /\ dup => n > 1
        /\ Built(n, dup, MkSettings(w, k, FALSE, DefaultSimilarityThreshold), "none")
        /\ threads = <<>>

NextRetrieve ==
    \/ pc = "idle" /\ \E q \in Queries, top_k \in TopKs : Retrieve(q, top_k)
    \/ pc = "idle" /\ \E q \in Queries : Query(q)
    \/ Return

SpecRetrieve == InitRetrieve /\ [][NextRetrieve]_vars

\* validate_relevance called on its own, on any chunk list
ValScores == {Rat(1, 10), Rat(4, 10), Rat(5, 10), Rat(65, 100), Rat(9, 10)}
SimilarityThresholds == {DefaultSimilarityThreshold, Rat(45, 100)}

\* a chunk as retrieve builds it, for entry idx with a given fused score
Chunk(idx, score) ==
    [content |-> document_texts[idx],
     score |-> score,
     metadata |-> [id |-> metadata[idx].id,
                   category |-> metadata[idx].category,
                   question |-> metadata[idx].question,
                   answer |-> metadata[idx].answer,
                   tags |-> metadata[idx].tags]]

\* scores of the chunks after the third
TailScores == {Rat(1, 10), Rat(9, 10)}
VarianceThresholds == {DefaultVarianceThreshold, Zero}
KeywordOverlapThresholds == {DefaultKeywordOverlapThreshold, One}

\* chunk lists of up to MaxChunks chunks: chunk j is entry top + j - 1 (cyclically)
ChunkLists ==
    UNION { { [j \in 1..len |->
                 Chunk(((top + j - 2) % Len(document_texts)) + 1, sc[j])] :
              sc \in {f \in [1..len -> ValScores] :
                        \A j \in 1..len : j > 3 => f[j] \in TailScores},
              top \in 1..Len(document_texts) } :
            len \in 0..MaxChunks }

\* the settings with the two other thresholds of the validation set to v and o
WithThresholds(s, v, o) ==
    [s EXCEPT !.variance_threshold = v, !.keyword_overlap_threshold = o]

InitValidate ==
    \E n \in 1..MaxDocs, sim \in SimilarityThresholds,
       v \in VarianceThresholds, o \in KeywordOverlapThresholds :
        /\ Built(n, FALSE,
                 WithThresholds(MkSettings(<<Rat(7, 10), Rat(3, 10)>>, 5, FALSE, sim),
                                v, o),
                 "none")
        /\ threads = <<>>

NextValidate ==
    \/ pc = "idle" /\ \E chunks \in ChunkLists, q \in Queries : Validate(chunks, q)
    \/ Return

SpecValidate == InitValidate /\ [][NextValidate]_vars

(***************************************************************************)
(* Startup: the process constructs the pipeline from the corpus file and   *)
(* the persisted index, serves queries, exits and starts again             *)
(***************************************************************************)
RequiredFieldSeq == <<"tags", "id", "answer", "category", "question">>

\* entry i without one of the required fields
Incomplete(i) ==
    LET full == RawEntry(i, i, FALSE)
        missing == RequiredFieldSeq[((i - 1) % Len(RequiredFieldSeq)) + 1]
    IN  [f \in RequiredFields \ {missing} |-> full[f]]

\* corpus files: missing, or up to MaxDocs raw entries, each complete or not
CorpusFiles ==
    {<<>>} \cup
    UNION { { <<[i \in 1..n |-> IF i \in V THEN RawEntry(i, n, FALSE)
                                ELSE Incomplete(i)]>> : V \in SUBSET (1..n) } :
            n \in 0..MaxDocs }

\* what the index directory may hold when the process first starts
IndexDisks ==
    [bin : BOOLEAN,
     faiss : {<<>>} \cup
             { <<[rows |-> [i \in 1..m |-> [id |-> ToString(i)]],
                  loadable |-> l]>> : m \in 1..MaxDocs, l \in BOOLEAN }]

NoPipeline ==
    /\ documents = <<>>
    /\ langchain_documents = <<>>
    /\ document_texts = <<>>
    /\ metadata = <<>>
    /\ vectorstore = <<>>
    /\ bm25_index = <<>>
    /\ retriever = <<>>

InitStartup ==
    \E f \in CorpusFiles, d \in IndexDisks :
        /\ data_file = f
        /\ index_files = d
        /\ NoPipeline
        /\ settings = MkSettings(<<Rat(7, 10), Rat(3, 10)>>, 5, FALSE,
                                 DefaultSimilarityThreshold)
        /\ llm = "none"
        /\ pc = "idle"
        /\ call = NoCall
        /\ env = NoEnv
        /\ result = NoResult
        /\ trace = <<>>
        /\ seen = <<>>
        /\ rag_pipeline = <<>>
        /\ instances = 0
        /\ threads = <<>>
        /\ query_cache = <<>>
        /\ query_log = <<>>

\* what is kept of a startup: did it build the index and save it, has the
\* corpus file changed since, and did it follow a startup that built and saved
\* with the corpus file left unchanged in between
StartupRecord(c, e) ==
    [built_and_saved |-> /\ c.exc = <<>>
                         /\ "save_local" \in Range(c.trace)
                         /\ e.save = "ok",
     corpus_changed |-> FALSE,
     follows_saved |-> /\ seen # <<>>
                       /\ seen[1].built_and_saved
                       /\ ~seen[1].corpus_changed]

\* the fields of the pipeline the construction c leaves, BM25 index and
\* retriever included
Installed(c) ==
    /\ documents' = c.lists.documents
    /\ langchain_documents' = c.lists.langchain_documents
    /\ document_texts' = c.lists.document_texts
    /\ metadata' = c.lists.metadata
    /\ vectorstore' = c.vectorstore
    /\ bm25_index' = [i \in 1..Len(c.lists.document_texts) |->
                         Tokenize(c.lists.document_texts[i])]
    /\ retriever' = <<[vector_weight |-> settings.vector_weight,
                       bm25_weight |-> settings.bm25_weight,
                       k |-> settings.max_context_chunks]>>

\* the construction c, made under e, ends
Constructed(c, e) ==
    /\ call' = [op |-> "startup", query |-> "", top_k |-> <<>>, chunks |-> <<>>]
    /\ env' = e
    /\ trace' = c.trace
    /\ index_files' = c.disk
    /\ seen' = <<StartupRecord(c, e)>>
    /\ pc' = "done"
    /\ IF c.exc = <<>>
       THEN /\ Installed(c)
            /\ rag_pipeline' = <<1>>
            /\ instances' = 1
            /\ result' = [status |-> "returned", value |-> <<>>]
       ELSE /\ UNCHANGED <<documents, langchain_documents, document_texts,
                           metadata, vectorstore, bm25_index, retriever,
                           rag_pipeline, instances>>
            /\ result' = [status |-> "raised", value |-> c.exc[1]]
    /\ UNCHANGED <<data_file, settings, llm, threads, query_cache, query_log>>

\* get_rag_pipeline() while no pipeline exists: RAGPipeline()
Startup ==
    /\ pc = "idle"
    /\ retriever = <<>>
    /\ \E e \in StartupEnvs : Constructed(construct(data_file, index_files, e), e)

\* the process exits: the pipeline is gone, the files stay
Restart ==
    /\ pc = "idle"
    /\ retriever # <<>>
    /\ documents' = <<>>
    /\ langchain_documents' = <<>>
    /\ document_texts' = <<>>
    /\ metadata' = <<>>
    /\ vectorstore' = <<>>
    /\ bm25_index' = <<>>
    /\ retriever' = <<>>
    /\ rag_pipeline' = <<>>
    /\ instances' = 0
    /\ UNCHANGED <<files, settings, llm, pc, call, env, result, trace, seen,
                   threads, query_cache, query_log>>

\* the corpus file is replaced while no process runs
ReplaceCorpus(f) ==
    /\ pc = "idle"
    /\ retriever = <<>>
    /\ f # data_file
    /\ data_file' = f
    /\ seen' = IF seen = <<>> THEN seen
               ELSE <<[seen[1] EXCEPT !.corpus_changed = TRUE]>>
    /\ UNCHANGED <<index_files, pipeline, pc, call, env, result, trace, server>>

\* queries the running process serves
ServedQueries == {QReset}

NextStartup ==
    \/ Startup
    \/ Restart
    \/ pc = "idle" /\ \E f \in CorpusFiles : ReplaceCorpus(f)
    \/ pc = "idle" /\ retriever # <<>> /\ \E q \in ServedQueries : Query(q)
    \/ Return

SpecStartup == InitStartup /\ [][NextStartup]_vars

StartupDone == pc = "done" /\ call.op = "startup"

(***************************************************************************)
(* Repetition: one retrieve call is kept and made again, over the same     *)
(* indices or over indices built from the same entries in another order.   *)
(* The vector store and the BM25 index compute: asked the same query over  *)
(* the same entries they report the same distance and the same raw score   *)
(* for each entry (and fail alike); among rows at equal distance the ones  *)
(* returned may depend on the rows' positions.                             *)
(***************************************************************************)
RepeatSizes == {2, 3}
RepeatQueries == {QReset, QMars}
BetweenQueries == {QShort}
RepeatTopKs == {<<>>, <<1>>}

InitRepeat ==
    \E n \in RepeatSizes, dup \in BOOLEAN, k \in ChunkLimits :
        /\ Built(n, dup, MkSettings(<<Rat(7, 10), Rat(3, 10)>>, k, FALSE,
                                    DefaultSimilarityThreshold), "none")
        /\ threads = <<>>

\* what the collaborators hold for query q: the distance and the raw BM25
\* score of every entry, or the call that fails
Worlds(q) ==
    [fault : {"none"}, dist : [1..Len(vectorstore) -> Distances],
     bm25 : Bm25Results(Tokenize(q))]
    \cup [fault : {"embed", "bm25"}, dist : {[i \in 1..Len(vectorstore) |-> 0]},
          bm25 : {[i \in 1..Len(bm25_index) |-> Zero]}]

\* what a call made in world w observes when the vector search returns hits
EnvOfWorld(w, hits) ==
    [fault |-> w.fault,
     hits |-> IF w.fault = "embed" THEN <<>> ELSE hits,
     bm25_scores |-> IF w.fault = "none" THEN w.bm25 ELSE <<>>]

\* the position of entry x in the list s
IndexIn(x, s) == CHOOSE i \in DOMAIN s : s[i] = x

\* the world w, held for the entries in order docs, seen from the current order
WorldNow(w, docs) ==
    [fault |-> w.fault,
     dist |-> [j \in 1..Len(documents) |-> w.dist[IndexIn(documents[j], docs)]],
     bm25 |-> [j \in 1..Len(documents) |-> w.bm25[IndexIn(documents[j], docs)]]]

RetrieveCall(q, top_k) ==
    [op |-> "retrieve", query |-> q, top_k |-> top_k, chunks |-> <<>>]

\* the call is delivered and kept
Remember(q, top_k, w, re, r) ==
    /\ Deliver(RetrieveCall(q, top_k), MkEnv(re, NoGen, 0), r)
    /\ seen' = <<[query |-> q, top_k |-> top_k, docs |-> documents, world |-> w,
                  re |-> re, value |-> r.value, again |-> FALSE,
                  between |-> FALSE]>>

\* retrieve(q, top_k), the call that is kept
FirstRetrieve(q, top_k) ==
    /\ pc = "idle"
    /\ seen = <<>>
    /\ \E w \in Worlds(q) :
         \E h \in VectorSearchResultsFor(w.dist, retriever[1].k * 2) :
            Remember(q, top_k, w, EnvOfWorld(w, h),
                     retrieve(q, top_k, MkEnv(EnvOfWorld(w, h), NoGen, 0)))

\* query(q) for another query, between the kept call and its repetition
Between(q) ==
    /\ pc = "idle"
    /\ seen # <<>>
    /\ documents = seen[1].docs
    /\ q # seen[1].query
    /\ \E re \in RetrievalEnvs(q) : QueryFrom(q, re, query_validated(q, re))
    /\ seen' = <<[seen[1] EXCEPT !.between = TRUE]>>

\* the kept call made again over the same indices
RetrieveAgain ==
    /\ pc = "idle"
    /\ seen # <<>>
    /\ documents = seen[1].docs
    /\ Deliver(RetrieveCall(seen[1].query, seen[1].top_k),
               MkEnv(seen[1].re, NoGen, 0),
               retrieve(seen[1].query, seen[1].top_k, MkEnv(seen[1].re, NoGen, 0)))
    /\ seen' = <<[seen[1] EXCEPT !.again = TRUE]>>

Reorderings(n) ==
    {p \in [1..n -> 1..n] : \A i, j \in 1..n : p[i] = p[j] => i = j}

\* the corpus file is rewritten with its entries in order p, the persisted
\* index is removed and the pipeline is constructed anew
Rebuild(p) ==
    /\ pc = "idle"
    /\ seen # <<>>
    /\ \E i \in DOMAIN p : p[i] # i
    /\ data_file' = <<[j \in 1..Len(documents) |-> documents[p[j]]]>>
    /\ LET c == construct(<<[j \in 1..Len(documents) |-> documents[p[j]]]>>,
                          [index_files EXCEPT !.faiss = <<>>],
                          [builds |-> <<"ok", "ok">>, save |-> "ok"])
       IN  Installed(c) /\ index_files' = c.disk
    /\ UNCHANGED <<settings, llm, pc, call, env, result, trace, seen, server>>

\* the kept call made again over indices built in another order
RetrieveRebuilt ==
    /\ pc = "idle"
    /\ seen # <<>>
    /\ documents # seen[1].docs
    /\ \E h \in VectorSearchResultsFor(WorldNow(seen[1].world, seen[1].docs).dist,
                                       retriever[1].k * 2) :
         Deliver(RetrieveCall(seen[1].query, seen[1].top_k),
                 MkEnv(EnvOfWorld(WorldNow(seen[1].world, seen[1].docs), h), NoGen, 0),
                 retrieve(seen[1].query, seen[1].top_k,
                          MkEnv(EnvOfWorld(WorldNow(seen[1].world, seen[1].docs), h),
                                NoGen, 0)))
    /\ UNCHANGED seen

NextRepeat ==
    \/ pc = "idle" /\ \E q \in RepeatQueries, top_k \in RepeatTopKs : FirstRetrieve(q, top_k)
    \/ pc = "idle" /\ \E q \in BetweenQueries : Between(q)
    \/ RetrieveAgain
    \/ pc = "idle" /\ \E p \in Reorderings(Len(documents)) : Rebuild(p)
    \/ RetrieveRebuilt
    \/ Return

SpecRepeat == InitRepeat /\ [][NextRepeat]_vars

(***************************************************************************)
(* Properties                                                              *)
(***************************************************************************)
\* the position of the first occurrence of x in sequence s (0 when absent)
Pos(x, s) ==
    IF \E i \in DOMAIN s : s[i] = x
    THEN CHOOSE i \in DOMAIN s : s[i] = x /\ \A j \in 1..(i - 1) : s[j] # x
    ELSE 0

ResultFields == {"answer", "chunks", "confidence", "blocked", "response_time_ms"}

QueryDone == pc = "done" /\ call.op = "query"
RetrieveDone == pc = "done" /\ call.op = "retrieve"
ValidateDone == pc = "done" /\ call.op = "validate_relevance"

\* the verdict validate_relevance gives on the chunks carried by the call
\* under way (for a query: the chunks its retrieval produced)
RetrievedChunks == retrieve(call.query, <<>>, env).value
Verdict == validate_relevance(RetrievedChunks, call.query)

\* C1: query returns for every string input and never raises, whatever
\* retrieval, validation or generation do (raising included): the caller
\* receives a record with exactly the fields answer, chunks, confidence,
\* blocked and response_time_ms, each holding a value of its kind.
C1_QueryAlwaysReturns ==
    QueryDone =>
        /\ result.status = "returned"
        /\ DOMAIN result.value = ResultFields
        /\ result.value.answer \in STRING
        /\ result.value.blocked \in BOOLEAN
        /\ DOMAIN result.value.chunks = 1..Len(result.value.chunks)
        /\ \A i \in DOMAIN result.value.chunks :
               DOMAIN result.value.chunks[i] = {"content", "score", "metadata"}
        /\ result.value.confidence.n \in Int /\ result.value.confidence.d > 0
        /\ result.value.response_time_ms = env.elapsed

\* C1 witness: a query returned although a collaborator raised (the
\* generation backend during an accepted query)
C1_Witness ==
    /\ QueryDone
    /\ env.gen.outcome = "raise"
    /\ result.status = "returned"
    /\ DOMAIN result.value = ResultFields

\* C2: in query, generation is invoked if and only if validate_relevance
\* accepted the retrieved chunks, and then after the retrieval and the
\* validation of that query; blocked is false exactly when validation
\* accepted; a rejected query returns the refusal message (with the
\* validation reason in parentheses when settings.debug is on) and makes no
\* generation call.
C2_GenerationIffAccepted ==
    (QueryDone /\ ~IsBlank(call.query)) =>
        LET generated == Pos("generate_answer", trace) > 0
            v == Verdict
        IN  /\ generated <=> v.is_valid
            /\ generated =>
                 /\ 0 < Pos("retrieve", trace)
                 /\ Pos("retrieve", trace) < Pos("validate_relevance", trace)
                 /\ Pos("validate_relevance", trace) < Pos("generate_answer", trace)
            /\ result.value.blocked = ~v.is_valid
            /\ ~v.is_valid =>
                 /\ Range(trace) \cap ({"generate_answer"} \cup BackendCalls) = {}
                 /\ Pos("validate_relevance", trace) > 0
                 /\ result.value.answer =
                        IF settings.debug
                        THEN MsgRefusalHead \o v.reason \o MsgRefusalTail
                        ELSE MsgRefusal

\* C2 witness: an accepted query whose generation backend was called
C2_Witness ==
    /\ QueryDone
    /\ Verdict.is_valid
    /\ Range(trace) \cap BackendCalls # {}
    /\ ~result.value.blocked

\* C3: whenever the top chunk's fused score is strictly below
\* similarity_threshold, validate_relevance rejects with confidence equal to
\* that top score and the reason naming the threshold, for every number of
\* chunks and whatever the variance and the keyword overlap are.
C3_BelowThresholdBlocks ==
    (ValidateDone /\ call.chunks # <<>>
        /\ RLt(call.chunks[1].score, settings.similarity_threshold)) =>
        /\ result.value.is_valid = FALSE
        /\ result.value.confidence = call.chunks[1].score
        /\ result.value.reason =
               ReasonThreshold(call.chunks[1].score, settings.similarity_threshold)

\* C3 witness: three chunks, top score 0.5 below the threshold 0.65, whose
\* keyword overlap is full, rejected
C3_Witness ==
    /\ ValidateDone
    /\ Len(call.chunks) = 3
    /\ call.chunks[1].score = Rat(5, 10)
    /\ settings.similarity_threshold = DefaultSimilarityThreshold
    /\ call.query = QReset
    /\ call.chunks[1].metadata.question = "Reset password"
    /\ result.value.is_valid = FALSE

\* the call under way is validate_relevance on a list whose top three scores
\* are 0.9, 0.5, 0.4, under the default thresholds
ScenarioD ==
    /\ ValidateDone
    /\ Len(call.chunks) >= 3
    /\ call.chunks[1].score = Rat(9, 10)
    /\ call.chunks[2].score = Rat(5, 10)
    /\ call.chunks[3].score = Rat(4, 10)
    /\ settings.similarity_threshold = DefaultSimilarityThreshold
    /\ settings.variance_threshold = DefaultVarianceThreshold
    /\ settings.keyword_overlap_threshold = DefaultKeywordOverlapThreshold

\* C4 (as stated): with the default thresholds a chunk list whose top three
\* fused scores are 0.9, 0.5, 0.4 is blocked with a reason referencing variance
C4_Stated ==
    ScenarioD =>
        /\ result.value.is_valid = FALSE
        /\ result.value.reason =
               ReasonVariance(Variance(<<Rat(9, 10), Rat(5, 10), Rat(4, 10)>>))

\* C4: with the default thresholds a chunk list whose top three fused scores
\* are 0.9, 0.5, 0.4 passes the variance check (their population variance is
\* 0.14/3, about 0.047, not above 0.1): validate_relevance returns confidence
\* 0.9 and the verdict of the keyword-overlap check alone, accepting when the
\* query has no word longer than two characters or at least 0.2 of them occur
\* in the top chunk, and rejecting with the low-overlap reason otherwise.
C4_ScenarioDPassesVariance ==
    ScenarioD =>
        LET query_words == ContentWords(call.query)
            common == query_words \cap ContentWords(call.chunks[1].content)
            covered == query_words = {}
                       \/ 10 * Cardinality(common) >= 2 * Cardinality(query_words)
        IN  /\ result.value.confidence = Rat(9, 10)
            /\ result.value.is_valid = covered
            /\ covered => result.value.reason = ReasonPassed
            /\ ~covered => result.value.reason =
                   ReasonOverlap(Rat(Cardinality(common), Cardinality(query_words)))

\* C4 witness: the scores 0.9, 0.5, 0.4 accepted
C4_Witness ==
    /\ ScenarioD
    /\ result.value.is_valid
    /\ result.value.reason = ReasonPassed

\* C5: a blank or whitespace-only query is rejected by query with blocked
\* true, no chunks, confidence 0.0 and the answer 'Please provide a valid
\* question.', before any retrieval: no vector search, no BM25 scoring, no
\* validation and no generation is performed.
C5_BlankQueryRejectedFirst ==
    (QueryDone /\ \A i \in DOMAIN Chars(call.query) : IsSpace(Chars(call.query)[i])) =>
        /\ result.status = "returned"
        /\ result.value.blocked = TRUE
        /\ result.value.chunks = <<>>
        /\ result.value.confidence = Zero
        /\ result.value.answer = "Please provide a valid question."
        /\ trace = <<>>

\* C5 witness: a query of two spaces was rejected
C5_Witness ==
    /\ QueryDone
    /\ call.query = QSpaces
    /\ result.value.answer = MsgBlankQuery
    /\ result.value.blocked

\* the generation backend raised during an accepted query
GenerationRaised ==
    /\ QueryDone
    /\ env.gen.outcome = "raise"
    /\ Range(trace) \cap BackendCalls # {}
    /\ Verdict.is_valid

RetrievalRaised ==
    /\ QueryDone
    /\ \E i \in DOMAIN Chars(call.query) : ~IsSpace(Chars(call.query)[i])
    /\ env.fault = "embed"

C8_AtMostTopK ==
    (RetrieveDone /\ ~IsBlank(call.query) /\ call.top_k # <<>>) =>
        /\ result.status = "returned"
        /\ Len(result.value) <= call.top_k[1]

\* C8 witness: three entries ranked, two asked for, two returned
C8_Witness ==
    /\ RetrieveDone
    /\ call.top_k = <<2>>
    /\ Len(document_texts) = 3
    /\ settings.max_context_chunks = 5
    /\ Len(result.value) = 2

\* C9: every chunk returned by retrieve has a fused score in [0,1], for every
\* query and every weight configuration the settings validators accept.
C9_ScoresInUnitInterval ==
    RetrieveDone =>
        \A i \in DOMAIN result.value :
            /\ RLe(Zero, result.value[i].score)
            /\ RLe(result.value[i].score, One)

\* the chunks handed back by the call under way
ReturnedChunks == IF call.op = "query" THEN result.value.chunks ELSE result.value

\* the corpus position of a returned chunk (contents are pairwise different)
CorpusIndex(chunk) ==
    CHOOSE i \in DOMAIN document_texts : document_texts[i] = chunk.content

\* C10: the chunks returned by retrieve, and those carried in the query
\* result, are ordered by fused score, highest first, and chunks with equal
\* fused scores appear in corpus order (lower document index first).
C10_DescendingStable ==
    (RetrieveDone \/ QueryDone) =>
        \A i, j \in DOMAIN ReturnedChunks :
            i < j =>
                \/ RLt(ReturnedChunks[j].score, ReturnedChunks[i].score)
                \/ /\ ReturnedChunks[j].score = ReturnedChunks[i].score
                   /\ CorpusIndex(ReturnedChunks[i]) < CorpusIndex(ReturnedChunks[j])

\* C10 witness: a query result carrying three chunks, the first with a
\* higher score than the other two, which tie
C10_Witness ==
    /\ QueryDone
    /\ Len(ReturnedChunks) = 3
    /\ RLt(ReturnedChunks[2].score, ReturnedChunks[1].score)
    /\ ReturnedChunks[2].score = ReturnedChunks[3].score

\* retrieve scored the corpus lexically: the query has a token and neither
\* collaborator raised
LexicallyScored ==
    /\ RetrieveDone
    /\ Tokenize(call.query) # <<>>
    /\ env.fault = "none"

\* C11: for every query with at least one token, the normalized lexical
\* score of every document lies in [0,1]; and when the maximum raw BM25
\* score over the corpus is 0, every document's lexical score is 0.
C11_LexicalScoresNormalized ==
    LexicallyScored =>
        LET raw == env.bm25_scores
            lexical == NormalizeBm25(raw)
        IN  /\ \A i \in DOMAIN lexical :
                   RLe(Zero, lexical[i]) /\ RLe(lexical[i], One)
            /\ RMaxOf(raw, Len(raw)) = Zero =>
                   \A i \in DOMAIN lexical : lexical[i] = Zero


\* C14: in every result returned by query, confidence is the fused score of the
\* first chunk when the chunk list is not empty (accepted or blocked alike) and
\* 0.0 when it is empty, and it lies between 0 and 1
C14_ConfidenceIsTopScore ==
    QueryDone =>
        /\ result.status = "returned"
        /\ result.value.chunks # <<>> =>
               result.value.confidence = result.value.chunks[1].score
        /\ result.value.chunks = <<>> => result.value.confidence = Zero
        /\ RLe(Zero, result.value.confidence)
        /\ RLe(result.value.confidence, One)

\* the first two parts of C14 alone: confidence is the top chunk's score, or 0.0
ConfidenceTracksTopChunk ==
    QueryDone =>
        /\ result.value.chunks # <<>> =>
               result.value.confidence = result.value.chunks[1].score
        /\ result.value.chunks = <<>> => result.value.confidence = Zero

\* C15: validate_relevance called with an empty chunk list returns
\* (False, 0.0, reason) where the reason, lowercased, contains "no chunks",
\* whatever the query string
C15_EmptyChunksRejected ==
    (ValidateDone /\ call.chunks = <<>>) =>
        /\ result.status = "returned"
        /\ result.value.is_valid = FALSE
        /\ result.value.confidence = Zero
        /\ Contains(lower(Chars(result.value.reason)),
                    <<"n","o"," ","c","h","u","n","k","s">>)

\* validate_relevance has been called with no chunk and a query of several words
C15_Witness ==
    /\ ValidateDone
    /\ call.chunks = <<>>
    /\ call.query = QReset
    /\ result.value.reason = ReasonNoChunks

\* a text that, trimmed, is not empty, has at least 10 characters and contains
\* no refusal phrase in any letter case
Acceptable(text) ==
    LET t == strip(Chars(text))
    IN  /\ t # <<>>
        /\ Len(t) >= 10
        /\ \A i \in DOMAIN refusal_patterns : ~Contains(lower(t), refusal_patterns[i])

\* generate_answer ran for an accepted query
AnswerGenerated == QueryDone /\ Pos("generate_answer", trace) > 0

\* C20: for an accepted query, the answer of generate_answer is the generated
\* text (trimmed) only when that text, trimmed, is not empty, has at least 10
\* characters and contains no refusal phrase in any letter case; in every
\* other case (text rejected, backend failure, no backend) the answer is the
\* top chunk's stored answer
C20_GeneratedTextFiltered ==
    AnswerGenerated =>
        LET top == RetrievedChunks[1].metadata.answer
        IN  IF /\ Range(trace) \cap BackendCalls # {}
               /\ env.gen.outcome = "text"
               /\ Acceptable(env.gen.text)
            THEN result.value.answer = Str(strip(Chars(env.gen.text)))
            ELSE result.value.answer = top

\* C20 witness: the backend produced a text of two characters and the stored
\* answer of the top chunk was returned instead
C20_Witness ==
    /\ AnswerGenerated
    /\ Range(trace) \cap BackendCalls # {}
    /\ env.gen.text = GenShort
    /\ result.value.answer = RetrievedChunks[1].metadata.answer
    /\ ~result.value.blocked

\* a startup has ended that followed, with the corpus file unchanged, a
\* startup that built the index and saved it
StartedAfterSave == StartupDone /\ seen[1].follows_saved

\* C16: after a startup that built the semantic index and saved it, the next
\* startup over the unchanged corpus loads the persisted index and uses it
\* without building the index again
C16_SavedIndexReloaded ==
    StartedAfterSave =>
        /\ result.status = "returned"
        /\ "load_local" \in Range(trace)
        /\ "from_documents" \notin Range(trace)
        /\ vectorstore = index_files.faiss[1].rows

\* the persisted index a startup that loaded at least one document finds: none
\* it would load, one that fails to load, one whose vector count differs from
\* the number of documents loaded from the corpus file, or one whose count
\* matches
PersistedIndex ==
    IF load_documents(data_file).lists.documents = <<>> THEN "unreached"
    ELSE IF ~IndexOnDisk(index_files) THEN "none"
    ELSE IF ~index_files.faiss[1].loadable THEN "unloadable"
    ELSE IF Len(index_files.faiss[1].rows)
              # Len(load_documents(data_file).lists.documents) THEN "mismatch"
    ELSE "match"

\* C17: after every startup that completes, the semantic index holds exactly
\* as many vectors as there are loaded documents, whichever persisted index the
\* startup found (none, unloadable, other count, matching count); an index
\* that fails to load or has another count is replaced by a rebuilt one and
\* the startup does not fail because of it (it fails only when the rebuild
\* itself raises)
C17_IndexCountMatchesDocuments ==
    [][(pc = "idle" /\ pc' = "done" /\ call'.op = "startup") =>
          /\ result'.status = "returned" =>
                /\ Len(vectorstore') = Len(documents')
                /\ Len(documents') = Len(langchain_documents')
                /\ documents' # <<>>
          /\ PersistedIndex \in {"unloadable", "mismatch"} =>
                /\ "from_documents" \in Range(trace')
                /\ result'.status = "raised" =>
                      /\ result'.value = "from_documents"
                      /\ trace'[Len(trace')] = "from_documents"
          /\ PersistedIndex = "match" =>
                /\ result'.status = "returned"
                /\ "from_documents" \notin Range(trace')]_vars

\* C17 witness: a startup found a loadable index of another count, rebuilt it
\* and completed with two documents and two vectors
C17_Witness ==
    /\ StartupDone
    /\ result.status = "returned"
    /\ trace = <<"load_documents", "build_indices", "load_local",
                 "from_documents", "save_local">>
    /\ Len(documents) = 2
    /\ Len(vectorstore) = 2

\* the raw entries of the corpus file (none when the file is missing)
RawEntries == IF data_file = <<>> THEN <<>> ELSE data_file[1]

\* positions of the raw entries that have every required field
CompletePositions ==
    {i \in DOMAIN RawEntries :
        \A f \in {"id", "category", "question", "answer", "tags"} :
            f \in DOMAIN RawEntries[i]}

\* the j-th smallest element of a set of numbers
NthOf(S, j) == CHOOSE x \in S : Cardinality({y \in S : y < x}) = j - 1

\* C18: loading the corpus skips, without raising, every raw entry that lacks
\* any of id, category, question, answer or tags and keeps every other entry
\* in its original relative order; afterwards documents, document_texts,
\* metadata and langchain_documents have the same length and position i of
\* each refers to the same entry
C18_IncompleteEntriesSkipped ==
    (StartupDone /\ data_file # <<>>) =>
        /\ "build_indices" \in Range(trace)
        /\ result.status = "raised" => result.value # "FileNotFoundError"
        /\ result.status = "returned" =>
             /\ Len(documents) = Cardinality(CompletePositions)
             /\ \A j \in DOMAIN documents :
                    documents[j] = RawEntries[NthOf(CompletePositions, j)]
             /\ Len(document_texts) = Len(documents)
             /\ Len(metadata) = Len(documents)
             /\ Len(langchain_documents) = Len(documents)
             /\ \A j \in DOMAIN documents :
                    /\ document_texts[j] = Content(documents[j])
                    /\ metadata[j].id = documents[j].id
                    /\ metadata[j].question = documents[j].question
                    /\ metadata[j].answer = documents[j].answer
                    /\ langchain_documents[j].page_content = document_texts[j]
                    /\ langchain_documents[j].metadata = metadata[j]

\* C18 witness: a corpus file of three entries whose second entry lacks a field
\* was loaded: the first and the third entry were kept, in that order
C18_Witness ==
    /\ StartupDone
    /\ result.status = "returned"
    /\ Len(RawEntries) = 3
    /\ CompletePositions = {1, 3}
    /\ Len(documents) = 2
    /\ documents[1].id = "1"
    /\ documents[2].id = "3"

\* C19: pipeline construction raises, leaving no retriever (so that no query
\* can be served), when the corpus file is missing or when no raw entry has all
\* the required fields; corpus loading is fatal in those cases only: a corpus
\* file with at least one complete entry among incomplete ones is loaded, its
\* construction fails only if building the index itself raises, and the
\* pipeline it gives serves queries
C19_FatalOnlyWithoutDocuments ==
    /\ StartupDone =>
         /\ data_file = <<>> =>
               /\ result = [status |-> "raised", value |-> "FileNotFoundError"]
               /\ retriever = <<>>
         /\ (data_file # <<>> /\ CompletePositions = {}) =>
               /\ result = [status |-> "raised", value |-> "ValueError"]
               /\ retriever = <<>>
         /\ CompletePositions # {} =>
               /\ result.status = "raised" =>
                     /\ result.value = "from_documents"
                     /\ retriever = <<>>
               /\ result.status = "returned" =>
                     /\ retriever # <<>>
                     /\ Len(documents) = Cardinality(CompletePositions)
    /\ QueryDone =>
         /\ retriever # <<>>
         /\ CompletePositions # {}
         /\ result.status = "returned"

\* C19 witness: the corpus file holds two entries, both incomplete, and the
\* construction raised
C19_Witness ==
    /\ StartupDone
    /\ Len(RawEntries) = 2
    /\ CompletePositions = {}
    /\ result.status = "raised"
    /\ retriever = <<>>

\* a query was answered with chunks by a pipeline loaded from a corpus file
\* that mixes complete and incomplete entries
MixedCorpusServes ==
    /\ QueryDone
    /\ Len(documents) < Len(RawEntries)
    /\ result.value.chunks # <<>>

\* the kept retrieve call has been made a second time over the same indices
RepeatedOverSameIndices ==
    /\ RetrieveDone
    /\ seen # <<>>
    /\ call.query = seen[1].query
    /\ call.top_k = seen[1].top_k
    /\ documents = seen[1].docs

\* C13: retrieve called again with the same query and the same top_k over
\* unchanged indices returns the results of the first call: the same
\* documents, in the same order, with the same scores, whatever other queries
\* were answered in between
C13_RepeatedRetrieveIdentical ==
    RepeatedOverSameIndices =>
        /\ result.status = "returned"
        /\ result.value = seen[1].value

\* C13 witness: the second call was made after another query had been
\* answered, and two chunks came back
C13_Witness ==
    /\ RepeatedOverSameIndices
    /\ seen[1].again
    /\ seen[1].between
    /\ Len(result.value) = 2

\* the kept retrieve call has been made again over indices built from the same
\* entries in another order
RepeatedOverReorderedIndices ==
    /\ RetrieveDone
    /\ seen # <<>>
    /\ call.query = seen[1].query
    /\ call.top_k = seen[1].top_k
    /\ documents # seen[1].docs

\* the ids of the chunks with their fused scores, as a set
IdScores(chunks) ==
    {<<chunks[i].metadata.id, chunks[i].score>> : i \in DOMAIN chunks}

\* C12 (as stated): building the indices over the same documents in another
\* corpus order and issuing the same query yields the same set of top-K
\* document ids with the same fused scores
C12_Stated ==
    RepeatedOverReorderedIndices =>
        IdScores(result.value) = IdScores(seen[1].value)

DistinctIds ==
    \A i, j \in DOMAIN metadata : metadata[i].id = metadata[j].id => i = j

\* the number of documents retrieve keeps: the retriever's k, then top_k
KeptCount ==
    MinNat(retriever[1].k,
           IF call.top_k = <<>> THEN settings.max_context_chunks ELSE call.top_k[1])

\* the ranking has two documents of equal fused score on either side of the cut
TieAtCut(scores, sorted, K) ==
    /\ 1 <= K
    /\ K < Len(sorted)
    /\ scores[sorted[K]] = scores[sorted[K + 1]]

\* neither cut of the call falls between documents of equal rank: the vector
\* search has one possible answer (no two rows at equal distance on either
\* side of the 2k cut) and the fused ranking has no tie at the cut
NoTieAtCuts ==
    (env.fault = "none") =>
        /\ Cardinality(VectorSearchResultsFor(
               WorldNow(seen[1].world, seen[1].docs).dist, retriever[1].k * 2)) = 1
        /\ ~TieAtCut(CombinedScores(VectorScoresDict(env.hits, Len(env.hits)),
                                    NormalizeBm25(env.bm25_scores)),
                     SortedIndices(
                         CombinedScores(VectorScoresDict(env.hits, Len(env.hits)),
                                        NormalizeBm25(env.bm25_scores)),
                         Len(document_texts)),
                     KeptCount)

\* C12: building the indices over the same documents in another corpus order
\* and issuing the same query yields the same set of top-K document ids with
\* the same fused scores, provided the document ids are pairwise distinct and
\* neither cut falls between documents of equal rank (equal distance at the 2k
\* nearest-neighbour cut, equal fused score at the top-K cut)
C12_OrderIndependentWithoutTies ==
    (RepeatedOverReorderedIndices /\ DistinctIds /\ NoTieAtCuts) =>
        /\ result.status = "returned"
        /\ IdScores(result.value) = IdScores(seen[1].value)

\* C12 witness: three documents with distinct ids, indexed in another order,
\* gave the same single top document as before, by a fused score above zero
C12_Witness ==
    /\ RepeatedOverReorderedIndices
    /\ DistinctIds
    /\ NoTieAtCuts
    /\ Len(documents) = 3
    /\ env.fault = "none"
    /\ Len(result.value) = 1
    /\ RLt(Zero, result.value[1].score)
    /\ result.value[1].metadata.id # metadata[1].id

\* retrieve ranked the corpus for a requested count of at least one: the query
\* has a token, neither collaborator raised
RankedForCount ==
    /\ LexicallyScored
    /\ ~IsBlank(call.query)
    /\ call.top_k # <<>>
    /\ call.top_k[1] >= 1

\* the documents get_relevant_documents would return if the retriever's k were K
RankedWithK(K) ==
    LET vector_scores_dict == VectorScoresDict(env.hits, Len(env.hits))
        bm25_scores_normalized == NormalizeBm25(env.bm25_scores)
        combined_scores == CombinedScores(vector_scores_dict, bm25_scores_normalized)
    IN  SliceTo(SortedIndices(combined_scores, Len(document_texts)), K)

\* C21: for a non-blank query with at least one token over a corpus of N
\* documents, retrieve(text, topK) returns the min(topK, N) highest-ranked
\* documents for every topK >= 1: the requested count topK governs both the
\* 2*topK nearest-neighbour fetch and the final cut-off.
C21_RequestedCountGoverns ==
    RankedForCount =>
        /\ result.status = "returned"
        /\ Len(result.value) = MinNat(call.top_k[1], Len(document_texts))
        /\ \A j \in DOMAIN result.value :
               result.value[j].content =
                   document_texts[RankedWithK(call.top_k[1])[j]]
        /\ Len(env.hits) = MinNat(2 * call.top_k[1], Len(vectorstore))

\* the fields under which the retriever records the two component scores
ComponentScoreFields == {"vector_score", "bm25_score"}

\* the fields a returned chunk carries, at the top level or in its metadata
ChunkFields(chunk) == DOMAIN chunk \cup DOMAIN chunk.metadata

\* C22: every chunk returned by retrieve carries, besides its fused score,
\* both component scores (the vector score and the lexical score) of that
\* document for that query.
C22_ChunksCarryComponentScores ==
    RetrieveDone =>
        \A j \in DOMAIN result.value :
            /\ "score" \in DOMAIN result.value[j]
            /\ ComponentScoreFields \subseteq ChunkFields(result.value[j])

\* the four checks of the validation, each taken on its own over the chunk
\* list and the query of the call under way
NoEvidenceFails == call.chunks = <<>>

ThresholdFails ==
    /\ call.chunks # <<>>
    /\ RLt(call.chunks[1].score, settings.similarity_threshold)

\* the fused scores of the first three chunks
TopThreeScores ==
    <<call.chunks[1].score, call.chunks[2].score, call.chunks[3].score>>

ConsistencyFails ==
    /\ Len(call.chunks) >= 3
    /\ RLt(settings.variance_threshold, Variance(TopThreeScores))

\* the query's content words, and the fraction of them found in the top chunk
QueryContentWords == ContentWords(call.query)
CoveredFraction ==
    Rat(Cardinality(QueryContentWords \cap ContentWords(call.chunks[1].content)),
        Cardinality(QueryContentWords))

CoverageFails ==
    /\ call.chunks # <<>>
    /\ QueryContentWords # {}
    /\ RLt(CoveredFraction, settings.keyword_overlap_threshold)

\* the first check that fails, in the order no-evidence, threshold,
\* consistency, coverage
EarliestFailing ==
    IF NoEvidenceFails THEN "no-evidence"
    ELSE IF ThresholdFails THEN "threshold"
    ELSE IF ConsistencyFails THEN "consistency"
    ELSE IF CoverageFails THEN "coverage"
    ELSE "none"

\* the reason each check gives when it fails
ReasonOf(check) ==
    CASE check = "no-evidence" -> ReasonNoChunks
      [] check = "threshold" ->
             ReasonThreshold(call.chunks[1].score, settings.similarity_threshold)
      [] check = "consistency" -> ReasonVariance(Variance(TopThreeScores))
      [] check = "coverage" -> ReasonOverlap(CoveredFraction)
      [] OTHER -> ReasonPassed

\* C23: validate_relevance evaluates its checks in the fixed order
\* no-evidence, threshold, consistency, coverage and stops at the first
\* failing one: the returned reason is always that of the earliest failing
\* check, and it returns (True, top score, 'All validation checks passed') if
\* and only if no check fails.
C23_EarliestFailingCheckDecides ==
    ValidateDone =>
        /\ result.status = "returned"
        /\ result.value.reason = ReasonOf(EarliestFailing)
        /\ result.value.is_valid <=> EarliestFailing = "none"
        /\ EarliestFailing = "none" =>
               result.value = [is_valid |-> TRUE,
                               confidence |-> call.chunks[1].score,
                               reason |-> ReasonPassed]

\* C23 witness: three chunks whose top score passes the threshold, whose
\* scores vary too much and whose top chunk shares no word with the query, so
\* that two checks fail: the verdict is that of the consistency check
C23_Witness ==
    /\ ValidateDone
    /\ ~ThresholdFails
    /\ ConsistencyFails
    /\ CoverageFails
    /\ result.value.reason = ReasonVariance(Variance(TopThreeScores))

\* the reasons a variance block can give over scores of the model
VarianceReasons ==
    {ReasonVariance(Variance(<<a, b, c>>)) : a \in ValScores, b \in ValScores, c \in ValScores}
    \cup {ReasonVariance(Variance(<<a, b, c, d>>)) :
            a \in ValScores, b \in ValScores, c \in ValScores, d \in TailScores}

\* validate_relevance blocked for score variance
VarianceBlocked ==
    /\ ~result.value.is_valid
    /\ result.value.reason \in VarianceReasons

\* C24: the consistency check is applied only when at least 3 chunks were
\* retrieved, uses the population variance of exactly the first three fused
\* scores (chunks after the third never influence the verdict), and blocks only
\* when that variance is strictly greater than variance_threshold (and does
\* block then, once the threshold check has passed); with 1 or 2 chunks no
\* variance block can occur.
C24_VarianceOfFirstThree ==
    ValidateDone =>
        /\ VarianceBlocked =>
              /\ Len(call.chunks) >= 3
              /\ RLt(settings.variance_threshold, Variance(TopThreeScores))
              /\ result.value.reason = ReasonVariance(Variance(TopThreeScores))
        /\ Len(call.chunks) \in {1, 2} => ~VarianceBlocked
        /\ (Len(call.chunks) >= 3 /\ ~ThresholdFails
              /\ RLt(settings.variance_threshold, Variance(TopThreeScores)))
              => VarianceBlocked
        /\ (Len(call.chunks) >= 3 /\ ~ThresholdFails
              /\ RLe(Variance(TopThreeScores), settings.variance_threshold))
              => ~VarianceBlocked
        /\ Len(call.chunks) > 3 =>
              result.value = validate_relevance(SubSeq(call.chunks, 1, 3), call.query)

\* C24 witness: four chunks scoring 0.9, 0.9, 0.9, 0.1 under a variance
\* threshold of 0: the variance of the first three equals the threshold (that
\* of the four, 0.12, exceeds it) and the list is not blocked for variance
C24_Witness ==
    /\ ValidateDone
    /\ Len(call.chunks) = 4
    /\ TopThreeScores = <<Rat(9, 10), Rat(9, 10), Rat(9, 10)>>
    /\ call.chunks[4].score = Rat(1, 10)
    /\ settings.variance_threshold = Zero
    /\ Variance(TopThreeScores) = settings.variance_threshold
    /\ ~VarianceBlocked

\* the reasons a coverage block can give for a query of up to four content words
OverlapReasons == {ReasonOverlap(Rat(a, b)) : a \in 0..4, b \in 1..4}

\* validate_relevance blocked for low keyword overlap
OverlapBlocked ==
    /\ ~result.value.is_valid
    /\ result.value.reason \in OverlapReasons

\* validate_relevance reached its coverage check: there are chunks and neither
\* the threshold check nor the consistency check failed
CoverageReached ==
    /\ ValidateDone
    /\ call.chunks # <<>>
    /\ ~ThresholdFails
    /\ ~ConsistencyFails

\* C25: the coverage check blocks exactly when the query has at least one
\* content word (lowercased whitespace-separated word longer than 2
\* characters) and the fraction of the query's content words that also occur
\* among the top chunk's content words is strictly below
\* keyword_overlap_threshold; a query with no content word skips the check and
\* is accepted once the earlier checks have passed.
C25_CoverageBlocksBelowThreshold ==
    /\ (ValidateDone /\ OverlapBlocked) =>
          /\ QueryContentWords # {}
          /\ RLt(CoveredFraction, settings.keyword_overlap_threshold)
          /\ result.value.reason = ReasonOverlap(CoveredFraction)
    /\ CoverageReached =>
          /\ OverlapBlocked <=>
                (/\ QueryContentWords # {}
                 /\ RLt(CoveredFraction, settings.keyword_overlap_threshold))
          /\ QueryContentWords = {} => result.value.is_valid

\* C25 witness: both content words of the query occur in the top chunk, under
\* a keyword_overlap_threshold of 1.0: the fraction equals the threshold and
\* the chunk list is accepted
C25_Witness ==
    /\ CoverageReached
    /\ Cardinality(QueryContentWords) = 2
    /\ CoveredFraction = One
    /\ settings.keyword_overlap_threshold = One
    /\ result.value.is_valid

\* v(i): the similarity of the vector stored for document i when that vector is
\* among the hits, 0.0 otherwise (the index was built from the documents, so
\* row i of the store holds the vector of document i)
OwnVectorScore(i) ==
    IF \E j \in DOMAIN env.hits : env.hits[j].row = i
    THEN Similarity(env.hits[CHOOSE j \in DOMAIN env.hits : env.hits[j].row = i].score)
    ELSE Zero

\* the combined_scores of the call under way
FusedScores ==
    CombinedScores(VectorScoresDict(env.hits, Len(env.hits)),
                   NormalizeBm25(env.bm25_scores))

\* C26: for every document index i of the corpus, the fused score is
\* vector_weight * v(i) + lexical_weight * lex(i), where lex(i) is document i's
\* normalized lexical score and v(i) is the similarity of document i's own
\* vector when that vector is among the 2K nearest-neighbour hits and 0.0
\* otherwise: a hit's similarity is never attributed to a different document
\* nor dropped.
C26_FusedScoreOfOwnVector ==
    LexicallyScored =>
        \A i \in DOMAIN document_texts :
            FusedScores[i] =
                RAdd(RMul(retriever[1].vector_weight, OwnVectorScore(i)),
                     RMul(retriever[1].bm25_weight, NormalizeBm25(env.bm25_scores)[i]))

\* the same over corpora whose entries have pairwise different ids
FusedScoreOfOwnVectorDistinctIds ==
    (\A i, j \in DOMAIN metadata : metadata[i].id = metadata[j].id => i = j)
        => C26_FusedScoreOfOwnVector

\* how many times the startup under way called FAISS.from_documents, that is,
\* ran _rebuild_indices
RebuildCount == Cardinality({i \in DOMAIN trace : trace[i] = "from_documents"})

\* C30: during one startup, _build_indices builds the semantic index from
\* scratch (_rebuild_indices) at most once on every path: no persisted index,
\* load failure, count mismatch, and failure of the rebuild itself, which then
\* propagates as a startup failure without a second build attempt.
C30_AtMostOneRebuild ==
    StartupDone =>
        /\ RebuildCount <= 1
        /\ (RebuildCount >= 1 /\ env.builds[1] = "raise") =>
               /\ result.status = "raised"
               /\ result.value = "from_documents"

\* the same for the startups that did not find a persisted index of another
\* count than the documents
AtMostOneRebuildWithoutMismatch ==
    [][(PersistedIndex # "mismatch" /\ StartupDone') =>
          (/\ RebuildCount' <= 1
           /\ (RebuildCount' >= 1 /\ env'.builds[1] = "raise") =>
                  /\ result'.status = "raised"
                  /\ result'.value = "from_documents")]_vars

(***************************************************************************)
(* Interleaving: several calls of the query path in progress side by side  *)
(* on one pipeline, each advancing by one stage at a time                  *)
(***************************************************************************)
Threads == {1, 2}
InterleavedQueries == {QSpaces, QReset, QShort}
InterleavedTopKs == {<<>>, <<1>>}

\* a thread with no call in progress
IdleThread ==
    [pc |-> "idle", op |-> "none", query |-> "", top_k |-> <<>>, chunks |-> <<>>,
     re |-> [fault |-> "none", hits |-> <<>>, bm25_scores |-> <<>>],
     f |-> <<>>, env |-> NoEnv, value |-> <<>>]

InitInterleave ==
    \E n \in 1..2, mode \in {"api", "none"} :
        /\ Built(n, FALSE, MkSettings(<<Rat(7, 10), Rat(3, 10)>>, 5, FALSE,
                                      DefaultSimilarityThreshold), mode)
        /\ threads = [t \in Threads |-> IdleThread]

\* a stage of a query-path call that leaves the retriever cut down to one result
Advance_NarrowsRetriever(t, rec) ==
    /\ threads' = [threads EXCEPT ![t] = rec]
    /\ retriever' = <<[retriever[1] EXCEPT !.k = 1]>>
    /\ UNCHANGED <<documents, langchain_documents, document_texts, metadata,
                   vectorstore, bm25_index, settings, llm, files, pc, call, env,
                   result, trace, seen, rag_pipeline, instances, query_cache,
                   query_log>>

\* thread t runs one stage of its call and holds rec afterwards: no stage of
\* the query path assigns to anything but the call's own locals
Advance(t, rec) ==
    /\ threads' = [threads EXCEPT ![t] = rec]
    /\ UNCHANGED <<pipeline, files, pc, call, env, result, trace, seen,
                   rag_pipeline, instances, query_cache, query_log>>

\* query(q) up to the validation verdict: blank check, retrieve, validate_relevance
QueryBegin(t, q) ==
    /\ threads[t].pc = "idle"
    /\ \E re \in RetrievalEnvs(q) :
         Advance(t, [IdleThread EXCEPT !.pc = "validated", !.op = "query",
                                       !.query = q, !.re = re,
                                       !.f = <<query_validated(q, re)>>])

\* the rest of query: generate_answer or the refusal, and the result record
QueryEnd(t) ==
    /\ threads[t].pc = "validated"
    /\ \E el \in ElapsedMs,
          g \in (IF threads[t].f[1].stage = "accepted" /\ llm # "none"
                 THEN GenOutcomes ELSE {NoGen}) :
         Advance(t, [threads[t] EXCEPT
                       !.pc = "done",
                       !.env = MkEnv(threads[t].re, g, el),
                       !.value = <<query_answered(threads[t].query, threads[t].f[1],
                                                  MkEnv(threads[t].re, g, el)).value>>])

\* retrieve(q, top_k), one stage
RetrieveBy(t, q, top_k) ==
    /\ threads[t].pc = "idle"
    /\ \E re \in RetrievalEnvs(q) :
         Advance(t, [IdleThread EXCEPT
                       !.pc = "done", !.op = "retrieve", !.query = q,
                       !.top_k = top_k, !.re = re, !.env = MkEnv(re, NoGen, 0),
                       !.value = <<retrieve(q, top_k, MkEnv(re, NoGen, 0)).value>>])

\* validate_relevance(chunks, q) on the chunks another thread retrieved
ValidateBy(t, u, q) ==
    /\ threads[t].pc = "idle"
    /\ threads[u].pc = "done"
    /\ threads[u].op = "retrieve"
    /\ Advance(t, [IdleThread EXCEPT
                     !.pc = "done", !.op = "validate_relevance", !.query = q,
                     !.chunks = threads[u].value[1],
                     !.value = <<validate_relevance(threads[u].value[1], q)>>])

\* the caller of thread t takes the result
Take(t) ==
    /\ threads[t].pc = "done"
    /\ Advance(t, IdleThread)

NextInterleave ==
    \/ \E t \in Threads, q \in InterleavedQueries : QueryBegin(t, q)
    \/ \E t \in Threads : QueryEnd(t)
    \/ \E t \in Threads, q \in InterleavedQueries, top_k \in InterleavedTopKs :
          RetrieveBy(t, q, top_k)
    \/ \E t \in Threads, u \in Threads, q \in InterleavedQueries : ValidateBy(t, u, q)
    \/ \E t \in Threads : Take(t)

SpecInterleave == InitInterleave /\ [][NextInterleave]_vars

\* the document store, the two indices and the retriever configuration are
\* what the build makes of the corpus file and the settings
AsBuilt ==
    /\ documents = data_file[1]
    /\ document_texts = [i \in 1..Len(documents) |-> Content(documents[i])]
    /\ metadata = [i \in 1..Len(documents) |-> Metadata(documents[i])]
    /\ langchain_documents =
         [i \in 1..Len(documents) |->
             [page_content |-> document_texts[i], metadata |-> metadata[i]]]
    /\ vectorstore = IndexRows(langchain_documents)
    /\ bm25_index = [i \in 1..Len(documents) |-> Tokenize(document_texts[i])]
    /\ retriever = <<[vector_weight |-> settings.vector_weight,
                      bm25_weight |-> settings.bm25_weight,
                      k |-> settings.max_context_chunks]>>

\* what the call of thread t returns when it runs alone on the pipeline
Alone(t) ==
    CASE threads[t].op = "query" -> query(threads[t].query, threads[t].env).value
      [] threads[t].op = "retrieve" ->
             retrieve(threads[t].query, threads[t].top_k, threads[t].env).value
      [] threads[t].op = "validate_relevance" ->
             validate_relevance(threads[t].chunks, threads[t].query)

\* C27: no query-path operation (retrieve, validate_relevance,
\* generate_answer, query) changes the document store, the lexical index, the
\* semantic index or the retriever configuration: after any sequence or
\* interleaving of calls these are exactly as the build left them, and each
\* call's result is the one it gives when it runs alone, whatever other calls
\* run between its stages.
C27_QueryPathLeavesIndicesAlone ==
    /\ AsBuilt
    /\ \A t \in Threads :
          threads[t].pc = "done" => threads[t].value = <<Alone(t)>>

\* C27 witness: a query has been answered from generated text while the other
\* thread, having begun another query, waits between validation and answer
C27_Witness ==
    /\ threads[1].pc = "done"
    /\ threads[1].op = "query"
    /\ ~threads[1].value[1].blocked
    /\ threads[1].value[1].answer # MsgQueryError
    /\ threads[2].pc = "validated"
    /\ threads[2].query # threads[1].query

(***************************************************************************)
(* The module global: get_rag_pipeline called by several threads of one    *)
(* process, statement by statement                                         *)
(***************************************************************************)
\* corpus files of the process: missing, or one complete entry
SingletonFiles == {<<>>, <<<<RawEntry(1, 1, FALSE)>>>>}

\* a thread outside get_rag_pipeline that holds no instance
OutsideThread == [pc |-> "idle", local |-> <<>>, got |-> <<>>, raced |-> FALSE]

\* the positions inside get_rag_pipeline
InsidePcs == {"check", "construct", "assign", "return"}

InitSingleton ==
    \E f \in SingletonFiles :
        /\ data_file = f
        /\ index_files = [bin |-> FALSE, faiss |-> <<>>]
        /\ NoPipeline
        /\ settings = MkSettings(<<Rat(7, 10), Rat(3, 10)>>, 5, FALSE,
                                 DefaultSimilarityThreshold)
        /\ llm = "none"
        /\ pc = "idle"
        /\ call = NoCall
        /\ env = NoEnv
        /\ result = NoResult
        /\ trace = <<>>
        /\ seen = <<>>
        /\ rag_pipeline = <<>>
        /\ instances = 0
        /\ threads = [t \in Threads |-> OutsideThread]
        /\ query_cache = <<>>
        /\ query_log = <<>>

\* thread t calls get_rag_pipeline (from startup_event, health_check or the
\* query handler); raced records that the call overlaps another one
Enter(t) ==
    /\ threads[t].pc = "idle"
    /\ threads' =
         [u \in Threads |->
            IF u = t
            THEN [pc |-> "check", local |-> <<>>, got |-> <<>>,
                  raced |-> \/ threads[t].raced
                            \/ \E v \in Threads \ {t} : threads[v].pc \in InsidePcs]
            ELSE IF threads[u].pc \in InsidePcs
            THEN [threads[u] EXCEPT !.raced = TRUE]
            ELSE threads[u]]
    /\ UNCHANGED <<pipeline, files, pc, call, env, result, trace, seen,
                   rag_pipeline, instances, query_cache, query_log>>

\* rag_pipeline is None
IsNone(global) == global = <<>>

\* if rag_pipeline is None
CheckGlobal(t) ==
    /\ threads[t].pc = "check"
    /\ threads' = [threads EXCEPT ![t].pc =
                      IF IsNone(rag_pipeline) THEN "construct" ELSE "return"]
    /\ UNCHANGED <<pipeline, files, pc, call, env, result, trace, seen,
                   rag_pipeline, instances, query_cache, query_log>>

\* RAGPipeline(): the right-hand side of the assignment; a construction that
\* raises ends the call
ConstructInstance(t) ==
    /\ threads[t].pc = "construct"
    /\ \E e \in StartupEnvs :
         LET c == construct(data_file, index_files, e)
         IN  /\ index_files' = c.disk
             /\ IF c.exc = <<>>
                THEN /\ Installed(c)
                     /\ instances' = instances + 1
                     /\ threads' = [threads EXCEPT ![t].pc = "assign",
                                                   ![t].local = <<instances + 1>>]
                ELSE /\ UNCHANGED <<documents, langchain_documents, document_texts,
                                    metadata, vectorstore, bm25_index, retriever,
                                    instances>>
                     /\ threads' = [threads EXCEPT ![t].pc = "idle"]
    /\ UNCHANGED <<data_file, settings, llm, pc, call, env, result, trace, seen,
                   rag_pipeline, query_cache, query_log>>

\* rag_pipeline = <the instance just constructed>
AssignGlobal(t) ==
    /\ threads[t].pc = "assign"
    /\ rag_pipeline' = threads[t].local
    /\ threads' = [threads EXCEPT ![t].pc = "return"]
    /\ UNCHANGED <<pipeline, files, pc, call, env, result, trace, seen,
                   instances, query_cache, query_log>>

\* return rag_pipeline: the caller holds what the global names now
ReturnGlobal(t) ==
    /\ threads[t].pc = "return"
    /\ threads' = [threads EXCEPT ![t].pc = "idle", ![t].got = rag_pipeline]
    /\ UNCHANGED <<pipeline, files, pc, call, env, result, trace, seen,
                   rag_pipeline, instances, query_cache, query_log>>

\* rag.query(q) by the caller of a get_rag_pipeline call that returned
Serve(t, q) ==
    /\ threads[t].pc = "idle"
    /\ threads[t].got # <<>>
    /\ \E re \in RetrievalEnvs(q), el \in ElapsedMs :
         /\ call' = [op |-> "query", query |-> q, top_k |-> <<>>, chunks |-> <<>>]
         /\ env' = MkEnv(re, NoGen, el)
         /\ result' = [status |-> "returned",
                       value |-> query(q, MkEnv(re, NoGen, el)).value]
         /\ trace' = query(q, MkEnv(re, NoGen, el)).trace
    /\ UNCHANGED <<pipeline, files, pc, seen, server>>

NextSingleton ==
    \/ \E t \in Threads : Enter(t)
    \/ \E t \in Threads : CheckGlobal(t)
    \/ \E t \in Threads : ConstructInstance(t)
    \/ \E t \in Threads : AssignGlobal(t)
    \/ \E t \in Threads : ReturnGlobal(t)
    \/ \E t \in Threads, q \in ServedQueries : Serve(t, q)

SpecSingleton == InitSingleton /\ [][NextSingleton]_vars

\* the instances the callers hold agree, and each is a constructed pipeline
\* whose build has completed
OneInstanceServed ==
    /\ \A t, u \in Threads :
          (threads[t].got # <<>> /\ threads[u].got # <<>>) =>
              threads[t].got = threads[u].got
    /\ \A t \in Threads :
          threads[t].got # <<>> =>
              /\ threads[t].got[1] \in 1..instances
              /\ retriever # <<>>
    /\ call.op = "query" => retriever # <<>>

\* C28: across any sequence and interleaving of get_rag_pipeline calls in one
\* process, the pipeline (document load plus index build) is constructed at
\* most once, every call made after a construction returns that same
\* instance, and no query is served by a pipeline whose build has not
\* completed.
C28_ConstructedAtMostOnce ==
    /\ instances <= 1
    /\ OneInstanceServed

\* the same as long as no call has overlapped another one
ConstructedOnceWithoutOverlap ==
    (\A t \in Threads : ~threads[t].raced) => (instances <= 1 /\ OneInstanceServed)

(***************************************************************************)
(* The /api/query endpoint: query cache and QueryLog table. The handlers   *)
(* are coroutines that never await, so each runs from start to end before  *)
(* the next one starts                                                     *)
(***************************************************************************)
\* most rows the QueryLog table receives
MaxLog == 2

ApiQueries == {QSpaces, QReset, QPadded, QShort}
DbOutcomes == {"ok", "fail"}

\* generate_cache_key(query, "query"): the prefix and the digest of the
\* normalized query (the digest is taken to be one-to-one)
generate_cache_key(user_query) == "query:" \o Str(lower(strip(Chars(user_query))))

\* query_cache.get(cache_key): <<>> (None) or <<the dict stored>>
get_cached_query(user_query) ==
    IF generate_cache_key(user_query) \in DOMAIN query_cache
    THEN <<query_cache[generate_cache_key(user_query)]>>
    ELSE <<>>

\* the cache once entry is stored under the key of the query
CacheWith(user_query, entry) ==
    [k \in DOMAIN query_cache \cup {generate_cache_key(user_query)} |->
        IF k = generate_cache_key(user_query) THEN entry ELSE query_cache[k]]

\* the cache without key k
CacheWithout(k) ==
    IF DOMAIN query_cache \ {k} = {} THEN <<>>
    ELSE [j \in DOMAIN query_cache \ {k} |-> query_cache[j]]

\* cache_data: the result without a query_id (query_id <<>>: no such key)
cache_data(r) ==
    [answer |-> r.answer, chunks |-> r.chunks, blocked |-> r.blocked,
     confidence |-> r.confidence, response_time_ms |-> r.response_time_ms,
     query_id |-> <<>>]

\* the QueryLog row of a request, as far as the model follows it; the id is
\* the next value of the autoincremented primary key
QueryLogRow(user_query, r) ==
    [id |-> Len(query_log) + 1, query |-> user_query, blocked |-> r.blocked,
     num_chunks_retrieved |-> Len(r.chunks)]

\* do Chunk(...) and QueryResponse(...) accept the values (schemas.py: score
\* and confidence between 0 and 1)
Validates(r) ==
    /\ \A i \in DOMAIN r.chunks :
          RLe(Zero, r.chunks[i].score) /\ RLe(r.chunks[i].score, One)
    /\ RLe(Zero, r.confidence) /\ RLe(r.confidence, One)

QueryResponse(user_query, r, response_time_ms, query_id) ==
    [query |-> user_query, answer |-> r.answer, chunks |-> r.chunks,
     blocked |-> r.blocked, confidence |-> r.confidence,
     response_time_ms |-> response_time_ms, query_id |-> query_id]

\* the handler ends: response (or error status), cache and table
Respond(user_query, e, status, value, cache, log, calls) ==
    /\ call' = [op |-> "api_query", query |-> user_query, top_k |-> <<>>,
                chunks |-> <<>>]
    /\ env' = e
    /\ result' = [status |-> status, value |-> value]
    /\ query_cache' = cache
    /\ query_log' = log
    /\ trace' = calls
    /\ pc' = "done"
    /\ UNCHANGED <<pipeline, files, seen, rag_pipeline, instances, threads>>

\* the cache-hit branch: the request is logged and, when that succeeds, the
\* row's id is written into cached_result, which is the dict the cache holds
CacheHit(user_query, cached_result, e) ==
    Respond(user_query, e,
            IF Validates(cached_result) THEN "returned" ELSE "raised",
            IF Validates(cached_result)
            THEN QueryResponse(user_query, cached_result, e.elapsed,
                               IF e.db = "ok" THEN <<Len(query_log) + 1>>
                               ELSE cached_result.query_id)
            ELSE 500,
            IF e.db = "ok"
            THEN CacheWith(user_query, [cached_result EXCEPT
                                     !.query_id = <<Len(query_log) + 1>>])
            ELSE query_cache,
            IF e.db = "ok"
            THEN Append(query_log, QueryLogRow(user_query, cached_result))
            ELSE query_log,
            <<"get_cached_query", "db.commit">>)

\* the cache-miss branch on the result r of rag.query
CacheMiss(user_query, r, e) ==
    Respond(user_query, e,
            IF Validates(r) THEN "returned" ELSE "raised",
            IF Validates(r)
            THEN QueryResponse(user_query, r, r.response_time_ms,
                               IF e.db = "ok" THEN <<Len(query_log) + 1>> ELSE <<>>)
            ELSE 503,
            CacheWith(user_query, cache_data(r)),
            IF e.db = "ok" THEN Append(query_log, QueryLogRow(user_query, r))
            ELSE query_log,
            <<"get_cached_query", "get_rag_pipeline", "query", "db.commit",
              "cache_query_result">>)

\* POST /api/query
ApiQuery(q, db) ==
    /\ pc = "idle"
    /\ Len(query_log) < MaxLog \/ db = "fail"
    /\ IF IsBlank(q)
       THEN Respond(q, [db |-> "unused"] @@ NoEnv, "raised", 400,
                    query_cache, query_log, <<>>)
       ELSE IF get_cached_query(q) # <<>>
       THEN \E el \in ElapsedMs :
               CacheHit(q, get_cached_query(q)[1],
                        [db |-> db] @@ [NoEnv EXCEPT !.elapsed = el])
       ELSE \E re \in RetrievalEnvs(q), el \in ElapsedMs :
               CacheMiss(q, query(q, MkEnv(re, NoGen, el)).value,
                         [db |-> db] @@ MkEnv(re, NoGen, el))

\* POST /api/cache/clear
ClearCache ==
    /\ pc = "idle"
    /\ query_cache # <<>>
    /\ query_cache' = <<>>
    /\ UNCHANGED <<pipeline, files, pc, call, env, result, trace, seen,
                   rag_pipeline, instances, threads, query_log>>

\* an hour has passed since the entry under key k was stored: it is gone
Expire(k) ==
    /\ pc = "idle"
    /\ k \in DOMAIN query_cache
    /\ query_cache' = CacheWithout(k)
    /\ UNCHANGED <<pipeline, files, pc, call, env, result, trace, seen,
                   rag_pipeline, instances, threads, query_log>>

InitApi ==
    /\ Built(1, FALSE, MkSettings(<<Rat(7, 10), Rat(3, 10)>>, 5, FALSE,
                                  DefaultSimilarityThreshold), "none")
    /\ threads = <<>>

NextApi ==
    \/ \E q \in ApiQueries, db \in DbOutcomes : ApiQuery(q, db)
    \/ ClearCache
    \/ \E k \in DOMAIN query_cache : Expire(k)
    \/ Return

SpecApi == InitApi /\ [][NextApi]_vars

\* the request under way was answered from the cache
ServedFromCache ==
    /\ pc = "done"
    /\ call.op = "api_query"
    /\ result.status = "returned"
    /\ trace = <<"get_cached_query", "db.commit">>

\* no entry of the cache holds a query_id
EntriesWithoutQueryId ==
    \A k \in DOMAIN query_cache : query_cache[k].query_id = <<>>

\* the query_id of a response served from the cache is the id of the row
\* written for this request, or null when the logging failed
CacheHitIdIsOwnRow ==
    ServedFromCache =>
        result.value.query_id =
            IF env.db = "ok" THEN <<query_log[Len(query_log)].id>> ELSE <<>>

\* C29: query-cache entries are stored without a query_id, and for every
\* /api/query response served from the cache the returned query_id is the id
\* of the QueryLog row written for that very request, or null when that
\* logging fails; it is never the id of a row written for an earlier request.
C29_CachedResponseCarriesOwnId ==
    /\ EntriesWithoutQueryId
    /\ CacheHitIdIsOwnRow

====
